---- MODULE Spec2Model ----
(***************************************************************************)
(* A model of the mcryptoex event pipeline: the chain Indexer              *)
(* (services/indexer/main.py), the notes Validator                         *)
(* (services/validator/main.py), the Ledger Writer                         *)
(* (services/ledger-writer/main.py) and, of the API, the Quote Engine      *)
(* (apps/api/quote_engine.py), the chain registry loader                   *)
(* (apps/api/chain_registry.py), the compliance hook                       *)
(* (apps/api/compliance.py) and the OLAP client of apps/api/main.py; and   *)
(* the registry builder (scripts/generate_chain_registry.py).              *)
(*                                                                         *)
(* Text values that the code parses or trims (the decimal fields, the      *)
(* fields of a raw note) are sequences of symbols: single characters, and  *)
(* words that are only compared as a whole (NaN, SWAP, n1), so that        *)
(* strip() and Decimal() are computed and not assumed.  Identifiers that   *)
(* the Ledger Writer only compares or copies (note_id, tx_hash, addresses, *)
(* symbols) are plain strings.                                             *)
(*                                                                         *)
(* The specifications share the variables; each leaves the other           *)
(* components' variables at their idle values:                             *)
(*   SpecLedger      the Ledger Writer's consume loop, its DB transaction, *)
(*                   its post-commit publishes and the Kafka offsets       *)
(*   SpecRows        _build_ledger_rows as a function of one note          *)
(*   SpecValidator   the Validator's consume loop                          *)
(*   SpecValidate    _validate as a function of one raw note               *)
(*   SpecIndexer     the Indexer's run() loop over a chain and a registry  *)
(*   SpecQuoteCache  LiquidityDepthCache.get_chain over registry and clock *)
(*   SpecCanonical   the pair selection of _refresh, for one chain         *)
(*   SpecRegistry    load_chain_registry and tokens_payload over the file  *)
(*   SpecFees        the fees _refresh gives a chain                       *)
(*   SpecAmount      _amount_out_constant_product as a function            *)
(*   SpecQuote       build_quote over a snapshot                           *)
(*   SpecMinOut      expected_out and min_out as build_quote reports them  *)
(*   SpecCompliance  enforce_optional_compliance as a function             *)
(*   SpecNoRows      the Ledger Writer on notes that derive no ledger rows *)
(*   SpecWriters     two Ledger Writer processes on one note               *)
(*   SpecRefresh     _refresh_registry_watchlists and the poll after it    *)
(*   SpecOlapClient  startup, /analytics and /ready over the API's client  *)
(*   SpecBuilder     the builder's runs and the readers of its file        *)
(***************************************************************************)
EXTENDS Integers, Sequences, FiniteSets, TLC

(***************************************************************************)
(* Bounds of the model.                                                    *)
(***************************************************************************)
\* Messages the valid topic (one partition) holds at most.
MaxTopicLen == 2
\* Seconds the clock runs at most.
MaxSeconds == 3
\* Versions of the registry snapshot written at most.
MaxVersion == 1
\* Messages the raw topic (one partition) holds at most.
MaxRawLen == 2
\* Records the DLQ topic holds at most.
MaxDlqLen == 2

(***************************************************************************)
(* Text: str.strip() and decimal.Decimal(str).                             *)
(***************************************************************************)
IsSpace(c) == c = " "

RECURSIVE LStrip(_)
LStrip(s) == IF s # <<>> /\ IsSpace(Head(s)) THEN LStrip(Tail(s)) ELSE s

RECURSIVE RStrip(_)
RStrip(s) ==
    IF s # <<>> /\ IsSpace(s[Len(s)]) THEN RStrip(SubSeq(s, 1, Len(s) - 1)) ELSE s

\* str.strip(): leading and trailing whitespace removed.
Strip(s) == RStrip(LStrip(s))

Digits == {"0", "1", "2"}

DigitVal(c) == CASE c = "0" -> 0 [] c = "1" -> 1 [] c = "2" -> 2 [] OTHER -> 0

\* The integer the digits of s spell, the point skipped.
RECURSIVE Coefficient(_, _)
Coefficient(s, acc) ==
    IF s = <<>> THEN acc
    ELSE Coefficient(Tail(s), IF Head(s) = "." THEN acc ELSE acc * 10 + DigitVal(Head(s)))

DotCount(s) == Cardinality({i \in 1..Len(s) : s[i] = "."})

DigitCount(s) == Cardinality({i \in 1..Len(s) : s[i] \in Digits})

\* Digits after the point.
FracDigits(s) ==
    IF DotCount(s) = 0 THEN 0 ELSE Len(s) - (CHOOSE i \in 1..Len(s) : s[i] = ".")

\* A Decimal value: sign, coefficient, exponent (Python's as_tuple), or a special
\* value.  ok = FALSE stands for decimal.InvalidOperation raised by the constructor.
DecimalValue(ok, kind, neg, coeff, exp) ==
    [ok |-> ok, kind |-> kind, neg |-> neg, coeff |-> coeff, exp |-> exp]

\* The text after the sign: digits with at most one point and at least one digit,
\* or Infinity, or NaN.  The words NaN and Inf are single symbols of the alphabet.
DecimalOfBody(neg, body) ==
    IF body = <<"NaN">> THEN DecimalValue(TRUE, "nan", neg, 0, 0)
    ELSE IF body = <<"Inf">> THEN DecimalValue(TRUE, "inf", neg, 0, 0)
    ELSE IF /\ \A i \in 1..Len(body) : body[i] \in Digits \cup {"."}
            /\ DotCount(body) <= 1
            /\ DigitCount(body) >= 1
         THEN DecimalValue(TRUE, "finite", neg, Coefficient(body, 0), 0 - FracDigits(body))
    ELSE DecimalValue(FALSE, "invalid", FALSE, 0, 0)

\* The optional sign.
DecimalOfStripped(t) ==
    IF t # <<>> /\ Head(t) = "-" THEN DecimalOfBody(TRUE, Tail(t)) ELSE DecimalOfBody(FALSE, t)

\* Decimal(str(value)): whitespace around the text is dropped, then the sign and
\* the number are read.
Decimal(s) == DecimalOfStripped(Strip(s))

\* parsed < 0.  An ordering comparison with NaN raises decimal.InvalidOperation.
DecimalLtZero(d) ==
    CASE d.kind = "nan" -> "raise"
      [] d.kind = "inf" -> IF d.neg THEN "true" ELSE "false"
      [] OTHER -> IF d.neg /\ d.coeff # 0 THEN "true" ELSE "false"

\* amount <= 0.
DecimalLeZero(d) ==
    CASE d.kind = "nan" -> "raise"
      [] d.kind = "inf" -> IF d.neg THEN "true" ELSE "false"
      [] OTHER -> IF d.neg \/ d.coeff = 0 THEN "true" ELSE "false"

\* _dec of the Ledger Writer: the parsed value, or Decimal('0') when it does not parse.
DecOrZero(d) == IF d.ok THEN d ELSE DecimalValue(TRUE, "finite", FALSE, 0, 0)

Dec(value) == DecOrZero(Decimal(value))

\* str.lower() on the addresses and the country codes of the model.
Lower(s) ==
    CASE s = "0xUSER" -> "0xuser"
      [] s = "0xPOOL" -> "0xpool"
      [] s = "0xBAD" -> "0xbad"
      [] s = "KP" -> "kp"
      [] s = "US" -> "us"
      [] s = " KP " -> " kp "
      [] OTHER -> s

(***************************************************************************)
(* Notes.                                                                  *)
(***************************************************************************)
ALLOWED_ACTIONS ==
    {"SWAP", "LIQUIDITY_ADD", "LIQUIDITY_REMOVE", "MUSD_MINT", "MUSD_BURN",
     "PROTOCOL_FEE_ACCRUED", "FEE_TRANSFERRED_TO_TREASURY",
     "TREASURY_CONVERTED_TO_MUSD", "DISTRIBUTION_EXECUTED"}

\* uuid5(NAMESPACE_URL, "{chain_id}:{tx_hash}:{note_id}"): a hash of the three
\* fields, modelled as the triple itself.
TxIdOf(chain_id, tx_hash, note_id) == <<"uuid5", chain_id, tx_hash, note_id>>

\* A DexTxValid message as the Ledger Writer reads it.
ValidNote(note_id, correlation_id, action, amount_in, amount_out, fee_usd, protocol_revenue_usd, gas_cost_usd) ==
    [tx_id |-> TxIdOf(31337, "0xtx", note_id),
     note_id |-> note_id,
     correlation_id |-> correlation_id,
     chain_id |-> 31337,
     tx_hash |-> "0xtx",
     action |-> action,
     user_address |-> "0xUSER",
     pool_address |-> "0xPOOL",
     token_in |-> "mUSD",
     token_out |-> "WETH",
     amount_in |-> amount_in,
     amount_out |-> amount_out,
     fee_usd |-> fee_usd,
     protocol_revenue_usd |-> protocol_revenue_usd,
     gas_cost_usd |-> gas_cost_usd]

(***************************************************************************)
(* Ledger Writer: _build_ledger_rows.                                      *)
(***************************************************************************)
\* One row of dex_ledger_entries.  occurred_at is copied from the note into every
\* row unchanged and is left out.
LedgerRow(valid, entry_type, account_id, side, asset, amount) ==
    [tx_id |-> valid.tx_id,
     note_id |-> valid.note_id,
     chain_id |-> valid.chain_id,
     tx_hash |-> valid.tx_hash,
     asset |-> asset,
     amount |-> amount,
     entry_type |-> entry_type,
     fee_usd |-> Dec(valid.fee_usd),
     gas_cost_usd |-> Dec(valid.gas_cost_usd),
     protocol_revenue_usd |-> Dec(valid.protocol_revenue_usd),
     pool_address |-> valid.pool_address,
     account_id |-> account_id,
     side |-> side]

\* add_pair with the guard `amount < 0` in place of `amount <= 0`.
AddPairKeepsZero(valid, entry_type, debit_account, credit_account, asset, amount) ==
    IF DecimalLtZero(amount) # "false" THEN <<>>
    ELSE << LedgerRow(valid, entry_type, debit_account, "debit", asset, amount),
            LedgerRow(valid, entry_type, credit_account, "credit", asset, amount) >>

\* add_pair: the rows one call appends: none for amount <= 0, else the debit row
\* and then the credit row.  (For a NaN the comparison raises: AddPairRaises.)
AddPair(valid, entry_type, debit_account, credit_account, asset, amount) ==
    IF DecimalLeZero(amount) # "false" THEN <<>>
    ELSE << LedgerRow(valid, entry_type, debit_account, "debit", asset, amount),
            LedgerRow(valid, entry_type, credit_account, "credit", asset, amount) >>

AddPairRaises(amount) == DecimalLeZero(amount) = "raise"

\* The add_pair calls of _build_ledger_rows for the note's action, in order, each
\* as <<entry_type, debit_account, credit_account, asset, amount>>.
PairCallsOf(action, token_in, token_out, user_account, pool_account, network, amount_in, amount_out, fee_usd, protocol_revenue_usd, gas_cost_usd) ==
    CASE action = "SWAP" ->
           << <<"swap_notional_in", user_account, pool_account, token_in, amount_in>>,
              <<"swap_notional_out", pool_account, user_account, token_out, amount_out>>,
              <<"trade_fee_usd", user_account, <<"protocol", "treasury">>, "USD", fee_usd>>,
              <<"protocol_revenue_usd", pool_account, <<"protocol", "treasury">>, "USD",
                protocol_revenue_usd>>,
              <<"gas_cost_usd", user_account, network, "USD", gas_cost_usd>> >>
      [] action = "LIQUIDITY_ADD" ->
           << <<"liquidity_add_in_a", user_account, pool_account, token_in, amount_in>>,
              <<"liquidity_add_in_b", user_account, pool_account, token_out, amount_out>>,
              <<"gas_cost_usd", user_account, network, "USD", gas_cost_usd>> >>
      [] action = "LIQUIDITY_REMOVE" ->
           << <<"liquidity_remove_out_a", pool_account, user_account, token_in, amount_in>>,
              <<"liquidity_remove_out_b", pool_account, user_account, token_out, amount_out>>,
              <<"gas_cost_usd", user_account, network, "USD", gas_cost_usd>> >>
      [] action = "MUSD_MINT" ->
           << <<"musd_mint_collateral", user_account, pool_account, token_in, amount_in>>,
              <<"musd_mint_issue", pool_account, user_account, token_out, amount_out>>,
              <<"gas_cost_usd", user_account, network, "USD", gas_cost_usd>> >>
      [] action = "MUSD_BURN" ->
           << <<"musd_burn_in", user_account, pool_account, token_in, amount_in>>,
              <<"musd_burn_redeem", pool_account, user_account, token_out, amount_out>>,
              <<"gas_cost_usd", user_account, network, "USD", gas_cost_usd>> >>
      [] action = "FEE_TRANSFERRED_TO_TREASURY" ->
           << <<"fee_transfer_to_treasury", pool_account, <<"protocol", "treasury">>,
                token_in, amount_in>> >>
      [] action = "TREASURY_CONVERTED_TO_MUSD" ->
           << <<"treasury_convert_spend", <<"protocol", "conversion">>,
                <<"protocol", "treasury">>, token_in, amount_in>>,
              <<"treasury_convert_receive", <<"protocol", "treasury">>,
                <<"protocol", "conversion">>, token_out, amount_out>> >>
      [] action = "DISTRIBUTION_EXECUTED" ->
           << <<"treasury_distribution", user_account, <<"protocol", "treasury">>,
                "mUSD", amount_in>> >>
      [] OTHER -> << >>

\* The calls for one note: the accounts and the five amounts (through _dec, as
\* _persist passes them).
PairCalls(valid) ==
    PairCallsOf(valid.action, valid.token_in, valid.token_out,
                <<"user", Lower(valid.user_address)>>, <<"pool", Lower(valid.pool_address)>>,
                <<"network", valid.chain_id>>,
                Dec(valid.amount_in), Dec(valid.amount_out), Dec(valid.fee_usd),
                Dec(valid.protocol_revenue_usd), Dec(valid.gas_cost_usd))

\* rows after the calls, one after the other.
RECURSIVE RowsOfCalls(_, _)
RowsOfCalls(valid, calls) ==
    IF calls = <<>> THEN <<>>
    ELSE AddPair(valid, Head(calls)[1], Head(calls)[2], Head(calls)[3], Head(calls)[4],
                 Head(calls)[5]) \o RowsOfCalls(valid, Tail(calls))

BuildLedgerRowsOf(valid, calls) ==
    IF \E i \in 1..Len(calls) : AddPairRaises(calls[i][5])
    THEN [raised |-> TRUE, rows |-> <<>>]
    ELSE [raised |-> FALSE, rows |-> RowsOfCalls(valid, calls)]

\* _build_ledger_rows: [raised, rows]; raised when an add_pair raised.
BuildLedgerRows(valid) == BuildLedgerRowsOf(valid, PairCalls(valid))

(***************************************************************************)
(* State.                                                                  *)
(***************************************************************************)
VARIABLES
    \* Ledger Writer and what it reads and writes
    validTopic,          \* the valid-notes topic: the log of one partition
    position,            \* the consumer's fetch position (in memory)
    committed,           \* the consumer group's committed offset
    pc,                  \* where run() stands in its loop
    msg,                 \* <<>> or <<[offset, value]>>: the message of this iteration
    inserted,            \* _persist's first result
    pgBroken,            \* pg_conn holds a failed, never rolled back transaction
    dex_transactions,    \* committed rows of the three tables, in insertion order
    dex_ledger_entries,
    dex_outbox,
    ledgerEntriesTopic,  \* records handed to the producer, per topic
    outboxTopic,
    olapRows,            \* rows of dex_transactions_raw (OLAP)
    failedOffsets,       \* offsets whose last processing ended in the except branch
    effects,             \* what run() did for msg, in order (a log of this iteration)
    logged               \* <<>> or <<error>>: what the except branch logged for msg

VARIABLES
    \* _build_ledger_rows on its own
    rowsNote,            \* <<>> or <<note>>: the argument
    rowsResult           \* <<>> or <<[raised, rows]>>: the result

VARIABLES
    \* Validator and what it reads and writes (it writes validTopic too)
    rawTopic,            \* the raw-notes topic: the log of one partition
    rawPosition,         \* the consumer's fetch position (in memory)
    rawCommitted,        \* the consumer group's committed offset
    vpc,                 \* where run() stands in its loop
    message,             \* <<>> or <<[offset, value]>>: the message of this iteration
    validated,           \* <<>> or <<valid>>: what _validate returned
    exc,                 \* <<>> or <<error>>: the exception the except branch caught
    dlqTopic,            \* records handed to the producer for the DLQ topic
    outcome              \* what run() did for message, in order (a log of this iteration)

VARIABLES
    \* _validate on its own
    validateRaw,         \* <<>> or <<raw>>: the argument
    validateResult       \* <<>> or <<[raised, error, valid]>>: the result

VARIABLES
    \* What the Indexer and the API read from outside
    now,                 \* time.time(), in seconds
    registryFile,        \* the registry snapshot on disk
    head,                \* web3.eth.block_number as the endpoint reports it
    rpcUp                \* the RPC endpoint answers

VARIABLES
    \* Indexer (it writes rawTopic)
    ipc,                 \* where run() stands: "start" or "loop"
    settings,            \* self.settings but the two watchlists
    web3,                \* self.web3 is not None
    current_block,       \* <<>> (None) or <<block>>
    pair_addresses,      \* self.settings.pair_addresses
    stabilizer_addresses,\* self.settings.stabilizer_addresses
    last_registry_refresh_at,
    pair_meta_cache,     \* the pair addresses _pair_meta_cache holds
    registrySeen,        \* the version of the snapshot last loaded (a log of it)
    lastLoop             \* what the last iteration of run() did (a log of it)

VARIABLES
    \* Quote Engine: the liquidity cache of the API process
    canonical_pool_allowlist, \* os.getenv('CANONICAL_POOL_ALLOWLIST'), in chunks
    cache_expires_at,    \* _cache._expires_at
    cache_chains,        \* _cache._chains: chain_id -> ChainLiquidityState
    cacheBuiltFrom,      \* the snapshot the last refresh read (a log of it)
    lastGet              \* <<>> or <<what the last get_chain call did>>

VARIABLES
    \* The pair selection of _refresh on its own
    canonChain,          \* <<>> or <<chain>>: a chain of the registry payload
    canonPairs           \* <<>> or <<pairs>>: the pairs _refresh keeps for it

VARIABLES
    \* API: the chain registry loader
    registryCache,       \* what lru_cache holds for _load_chain_registry_cached
    lastLoad,            \* <<>> or <<what the last load_chain_registry call did>>
    lastTokens           \* <<>> or <<what the last tokens_payload call did>>

VARIABLES
    \* Quote Engine: build_quote
    allow_static_fallback_global, \* QUOTE_ALLOW_STATIC_FALLBACK is 'true'
    lastQuote            \* <<>> or <<what the last build_quote call did>>

VARIABLES
    \* Functions of the API on their own: <<>> or <<argument>>, <<>> or <<result>>
    feesChain,           \* the fees _refresh gives a chain of the payload
    feesResult,
    amountArgs,          \* _amount_out_constant_product
    amountOut,
    minOutArgs,          \* the amounts build_quote reports
    minOutResult,
    complianceArgs,      \* enforce_optional_compliance
    complianceResult

VARIABLES
    \* Two Ledger Writer processes on one database
    writers              \* per process: where run() stands, its note, its open transaction

VARIABLES
    \* _refresh_registry_watchlists on its own: <<>> or <<argument>>, <<>> or <<result>>
    refreshArgs,
    refreshResult

VARIABLES
    \* The API's OLAP client
    started,             \* startup() has run
    ch,                  \* _ch: <<>> for None, <<"client">> for a ClickHouse client
    apiLog               \* what startup() and the handlers did, call after call

VARIABLES
    \* The registry builder and the readers of its file
    outPath,             \* OUT_PATH on disk: a snapshot, or [unreadable |-> kind]
    bpc,                 \* where main() stands: "build", "open" or "write"
    registry,            \* <<>> or <<what build_registry() returned>>
    clock,               \* datetime.now(timezone.utc), in ticks
    lastRun,             \* <<>> or <<the inputs and the end of the last build_registry()>>
    streak,              \* <<>> or <<the runs since discovery last succeeded>>
    lastRead             \* <<>> or <<what a reader of OUT_PATH found>>

\* The Ledger Writer's own state; validTopic is shared with the Validator.
ledgerVars ==
    <<position, committed, pc, msg, inserted, pgBroken, dex_transactions,
      dex_ledger_entries, dex_outbox, ledgerEntriesTopic, outboxTopic, olapRows,
      failedOffsets, effects, logged>>

rowsVars == <<rowsNote, rowsResult>>

validatorVars ==
    <<rawTopic, rawPosition, rawCommitted, vpc, message, validated, exc, dlqTopic, outcome>>

\* The Validator's own state; rawTopic is shared with the Indexer.
validatorLocalVars ==
    <<rawPosition, rawCommitted, vpc, message, validated, exc, dlqTopic, outcome>>

validateVars == <<validateRaw, validateResult>>

envVars == <<now, registryFile, head, rpcUp>>

indexerVars ==
    <<ipc, settings, web3, current_block, pair_addresses, stabilizer_addresses,
      last_registry_refresh_at, pair_meta_cache, registrySeen, lastLoop>>

\* The state outside the Validator and the Ledger Writer.
loaderVars == <<registryCache, lastLoad, lastTokens>>

buildQuoteVars == <<allow_static_fallback_global, lastQuote>>

feesVars == <<feesChain, feesResult>>

amountVars == <<amountArgs, amountOut>>

minOutVars == <<minOutArgs, minOutResult>>

complianceVars == <<complianceArgs, complianceResult>>

\* The state of the API process outside the liquidity cache.
apiVars ==
    <<loaderVars, buildQuoteVars, feesVars, amountVars, minOutVars, complianceVars>>

quoteVars ==
    <<canonical_pool_allowlist, cache_expires_at, cache_chains, cacheBuiltFrom, lastGet,
      canonChain, canonPairs, apiVars>>

\* Components that run beside the pipeline and the API's quote path.
refreshVars == <<refreshArgs, refreshResult>>

olapClientVars == <<started, ch, apiLog>>

builderVars == <<outPath, bpc, registry, clock, lastRun, streak, lastRead>>

extVars == <<writers, refreshVars, olapClientVars, builderVars>>

offPipelineVars == <<envVars, indexerVars, quoteVars, extVars>>

vars == <<validTopic, ledgerVars, rowsVars, validatorVars, validateVars, offPipelineVars>>

RowsIdle ==
    /\ rowsNote = <<>>
    /\ rowsResult = <<>>

ValidatorIdle ==
    /\ rawTopic = <<>>
    /\ rawPosition = 0
    /\ rawCommitted = 0
    /\ vpc = "poll"
    /\ message = <<>>
    /\ validated = <<>>
    /\ exc = <<>>
    /\ dlqTopic = <<>>
    /\ outcome = <<>>

ValidateIdle ==
    /\ validateRaw = <<>>
    /\ validateResult = <<>>

\* The registry snapshot file with no chain in it.
EmptyRegistry == [version |-> 0, chains |-> <<>>]

\* time.time() when the model starts: later than any TTL after the epoch.
Epoch == 10

EnvIdle ==
    /\ now = Epoch
    /\ registryFile = EmptyRegistry
    /\ head = 0
    /\ rpcUp = FALSE

IndexerIdle ==
    /\ ipc = "start"
    /\ settings = <<>>
    /\ web3 = FALSE
    /\ current_block = <<>>
    /\ pair_addresses = <<>>
    /\ stabilizer_addresses = <<>>
    /\ last_registry_refresh_at = 0
    /\ pair_meta_cache = {}
    /\ registrySeen = <<>>
    /\ lastLoop = <<>>

\* LiquidityDepthCache(ttl_seconds) before its first get_chain.
QuoteCacheIdle ==
    /\ cache_expires_at = 0
    /\ cache_chains = <<>>
    /\ cacheBuiltFrom = <<>>
    /\ lastGet = <<>>

\* Nothing has called load_chain_registry yet.
LoaderIdle ==
    /\ registryCache = <<>>
    /\ lastLoad = <<>>
    /\ lastTokens = <<>>

\* No build_quote call yet; QUOTE_ALLOW_STATIC_FALLBACK is not set.
BuildQuoteIdle ==
    /\ allow_static_fallback_global = FALSE
    /\ lastQuote = <<>>

FeesIdle ==
    /\ feesChain = <<>>
    /\ feesResult = <<>>

AmountIdle ==
    /\ amountArgs = <<>>
    /\ amountOut = <<>>

MinOutIdle ==
    /\ minOutArgs = <<>>
    /\ minOutResult = <<>>

ComplianceIdle ==
    /\ complianceArgs = <<>>
    /\ complianceResult = <<>>

ApiIdle ==
    /\ LoaderIdle
    /\ BuildQuoteIdle
    /\ FeesIdle
    /\ AmountIdle
    /\ MinOutIdle
    /\ ComplianceIdle

QuoteIdle ==
    /\ canonical_pool_allowlist = <<>>
    /\ QuoteCacheIdle
    /\ canonChain = <<>>
    /\ canonPairs = <<>>
    /\ ApiIdle

\* No second Ledger Writer process.
WritersIdle == writers = <<>>

RefreshIdle ==
    /\ refreshArgs = <<>>
    /\ refreshResult = <<>>

\* The API module as imported: _ch = None.
OlapClientIdle ==
    /\ started = FALSE
    /\ ch = <<>>
    /\ apiLog = <<>>

\* The builder has not run and there is no generated file.
BuilderIdle ==
    /\ outPath = [unreadable |-> "missing"]
    /\ bpc = "build"
    /\ registry = <<>>
    /\ clock = 0
    /\ lastRun = <<>>
    /\ streak = <<>>
    /\ lastRead = <<>>

ExtIdle == WritersIdle /\ RefreshIdle /\ OlapClientIdle /\ BuilderIdle

OffPipelineIdle == EnvIdle /\ IndexerIdle /\ QuoteIdle /\ ExtIdle

(***************************************************************************)
(* Ledger Writer: the DB transaction of _persist.                          *)
(***************************************************************************)
\* pg_conn.autocommit = False: the statements of _persist become visible together,
\* at pg_conn.commit().
PgAutocommitOn == TRUE

PgAutocommit == FALSE

\* INSERT INTO dex_transactions ... with neither ON CONFLICT nor a unique note_id.
InsertTransactionNoConflict(table, valid) ==
    [table |-> Append(table, valid), row |-> TRUE]

\* INSERT INTO dex_transactions ... ON CONFLICT (note_id) DO NOTHING RETURNING tx_id:
\* the table after it, and whether a row came back.
InsertTransaction(table, valid) ==
    IF \E i \in 1..Len(table) : table[i].note_id = valid.note_id
    THEN [table |-> table, row |-> FALSE]
    ELSE [table |-> Append(table, valid), row |-> TRUE]

outbox_payload(valid) ==
    [event_type |-> "dex.note.ingested",
     tx_id |-> valid.tx_id,
     note_id |-> valid.note_id,
     chain_id |-> valid.chain_id,
     tx_hash |-> valid.tx_hash,
     action |-> valid.action]

OutboxRow(valid) ==
    [tx_id |-> valid.tx_id,
     event_type |-> "dex.note.ingested",
     payload |-> outbox_payload(valid),
     published |-> FALSE]

\* Where a statement of _persist may fail.
PersistFailPoints ==
    {"none", "insert_transaction", "insert_ledger_entries", "insert_outbox", "commit"}

\* What a failed _persist leaves: the exception, the connection's state, and the
\* tables as committed.
PersistRaised(tables, broken) ==
    [raised |-> TRUE, broken |-> broken, inserted |-> FALSE, tables |-> tables]

\* pg_conn.commit(), or its failure.
PersistCommit(tables, t3, row, failAt) ==
    IF failAt = "commit"
    THEN PersistRaised(IF PgAutocommit THEN t3 ELSE tables, TRUE)
    ELSE [raised |-> FALSE, broken |-> FALSE, inserted |-> row, tables |-> t3]

\* `if inserted:` of _persist taken only for a note with ledger rows, as the INSERT
\* into dex_ledger_entries is.
PersistOutboxOnlyWithRows(tables, t2, valid, row, failAt) ==
    IF ~(row /\ BuildLedgerRows(valid).rows # <<>>)
    THEN PersistCommit(tables, t2, row, failAt)
    ELSE IF failAt = "insert_outbox"
         THEN PersistRaised(IF PgAutocommit THEN t2 ELSE tables, TRUE)
    ELSE PersistCommit(tables, [t2 EXCEPT !.dex_outbox = Append(@, OutboxRow(valid))],
                       row, failAt)

\* `if inserted:` INSERT INTO dex_outbox, one row.
PersistOutbox(tables, t2, valid, row, failAt) ==
    IF ~row THEN PersistCommit(tables, t2, row, failAt)
    ELSE IF failAt = "insert_outbox"
         THEN PersistRaised(IF PgAutocommit THEN t2 ELSE tables, TRUE)
    ELSE PersistCommit(tables, [t2 EXCEPT !.dex_outbox = Append(@, OutboxRow(valid))],
                       row, failAt)

\* `if inserted and ledger_rows:` the bulk INSERT INTO dex_ledger_entries.
PersistEntries(tables, t1, valid, ledger_rows, row, failAt) ==
    IF ~(row /\ ledger_rows # <<>>) THEN PersistOutbox(tables, t1, valid, row, failAt)
    ELSE IF failAt = "insert_ledger_entries"
         THEN PersistRaised(IF PgAutocommit THEN t1 ELSE tables, TRUE)
    ELSE PersistOutbox(tables, [t1 EXCEPT !.dex_ledger_entries = @ \o ledger_rows],
                       valid, row, failAt)

\* The statements of the transaction, from the first INSERT's result s1.
PersistStatements(tables, valid, ledger_rows, s1, failAt) ==
    PersistEntries(tables, [tables EXCEPT !.dex_transactions = s1.table], valid,
                   ledger_rows, s1.row, failAt)

\* _persist from the rows _build_ledger_rows gave.
PersistBuilt(tables, valid, built, failAt, broken) ==
    IF built.raised THEN PersistRaised(tables, broken)
    ELSE IF broken \/ failAt = "insert_transaction" THEN PersistRaised(tables, TRUE)
    ELSE PersistStatements(tables, valid, built.rows,
                           InsertTransaction(tables.dex_transactions, valid), failAt)

\* _persist on the committed tables: [raised, broken, inserted, tables].  A statement
\* that fails leaves the connection in a failed transaction (broken); run() never
\* rolls back, so every later execute on the connection raises.
Persist(tables, valid, failAt, broken) ==
    PersistBuilt(tables, valid, BuildLedgerRows(valid), failAt, broken)

(***************************************************************************)
(* Ledger Writer: run().                                                   *)
(***************************************************************************)
\* The notes the valid topic may carry: a SWAP, the same SWAP published again
\* (same note_id, new correlation_id), and a note that derives no ledger rows.
LedgerNotes ==
    { ValidNote("n1", "c1", "SWAP", <<"1", "0">>, <<"0", ".", "2">>, <<"1">>, <<"2">>, <<"1">>),
      ValidNote("n1", "c2", "SWAP", <<"1", "0">>, <<"0", ".", "2">>, <<"1">>, <<"2">>, <<"1">>),
      ValidNote("n2", "c3", "PROTOCOL_FEE_ACCRUED", <<"1">>, <<"0">>, <<"0">>, <<"0">>, <<"0">>) }

NoteIds == {n.note_id : n \in LedgerNotes}

\* valid = DexTxValid(); valid.ParseFromString(message.value())
valid == msg[1].value

Tables ==
    [dex_transactions |-> dex_transactions,
     dex_ledger_entries |-> dex_ledger_entries,
     dex_outbox |-> dex_outbox]

\* The validator (or anyone) appends a valid note to the topic.
ValidTopicAppend(n) ==
    /\ Len(validTopic) < MaxTopicLen
    /\ validTopic' = Append(validTopic, n)
    /\ UNCHANGED <<position, committed, pc, msg, inserted, pgBroken, dex_transactions,
                   dex_ledger_entries, dex_outbox, ledgerEntriesTopic, outboxTopic,
                   olapRows, failedOffsets, effects, logged>>
    /\ UNCHANGED <<rowsVars, validatorVars, validateVars, offPipelineVars>>

\* consumer.poll returned a message: the next one of the partition.
LwPoll ==
    /\ pc = "poll"
    /\ position < Len(validTopic)
    /\ msg' = << [offset |-> position, value |-> validTopic[position + 1]] >>
    /\ position' = position + 1
    /\ pc' = "persist"
    /\ inserted' = FALSE
    /\ effects' = <<>>
    /\ logged' = <<>>
    /\ failedOffsets' = failedOffsets \ {position}
    /\ UNCHANGED <<validTopic, committed, pgBroken, dex_transactions, dex_ledger_entries,
                   dex_outbox, ledgerEntriesTopic, outboxTopic, olapRows>>
    /\ UNCHANGED <<rowsVars, validatorVars, validateVars, offPipelineVars>>

\* The exception a failed _persist raises: the one of _build_ledger_rows, the one
\* of the statement that failed, or, on a connection left in a failed transaction,
\* the one psycopg2 raises for every further execute.
PersistError(valid_note, failAt, broken) ==
    IF BuildLedgerRows(valid_note).raised THEN "InvalidOperation"
    ELSE IF broken THEN "InFailedSqlTransaction"
    ELSE "DatabaseError"

\* The except branch of run(): the failure is logged, nothing is committed or rolled
\* back, and the loop polls the next message.
LwExcept(error) ==
    /\ pc' = "poll"
    /\ failedOffsets' = failedOffsets \cup {msg[1].offset}
    /\ effects' = Append(effects, "raised")
    /\ logged' = <<error>>
    /\ UNCHANGED <<validTopic, position, committed, msg>>

\* inserted, ledger_rows, outbox_payload = self._persist(valid)
LwPersist ==
    /\ pc = "persist"
    /\ \E failAt \in PersistFailPoints :
         LET r == Persist(Tables, valid, failAt, pgBroken)
         IN  /\ dex_transactions' = r.tables.dex_transactions
             /\ dex_ledger_entries' = r.tables.dex_ledger_entries
             /\ dex_outbox' = r.tables.dex_outbox
             /\ pgBroken' = r.broken
             /\ IF r.raised
                THEN /\ LwExcept(PersistError(valid, failAt, pgBroken))
                     /\ UNCHANGED inserted
                ELSE /\ inserted' = r.inserted
                     /\ pc' = "after_persist"
                     /\ effects' = Append(effects, "db_commit")
                     /\ UNCHANGED <<validTopic, position, committed, msg, failedOffsets,
                                    logged>>
    /\ UNCHANGED <<ledgerEntriesTopic, outboxTopic, olapRows>>
    /\ UNCHANGED <<rowsVars, validatorVars, validateVars, offPipelineVars>>

\* `if inserted:` of run() with the test dropped.
PublishesAlways(ins) == TRUE

\* `if inserted:` of run(): the three post-commit steps run only for a new row.
Publishes(ins) == ins

\* The statements of run() after `if inserted:`, with _write_clickhouse left out.
RunOrderSkipsClickhouse(step) ==
    CASE step = "publish_ledger_batch" -> "publish_outbox"
      [] OTHER -> "commit"

\* The statements of run() after `if inserted:`, in the order it makes them: what
\* follows a step that returned.
RunOrder(step) ==
    CASE step = "publish_ledger_batch" -> "publish_outbox"
      [] step = "publish_outbox" -> "write_clickhouse"
      [] OTHER -> "commit"

\* The branch after _persist.
LwBranch ==
    /\ pc = "after_persist"
    /\ pc' = IF Publishes(inserted) THEN "publish_ledger_batch" ELSE "commit"
    /\ UNCHANGED <<validTopic, position, committed, msg, inserted, pgBroken,
                   dex_transactions, dex_ledger_entries, dex_outbox, ledgerEntriesTopic,
                   outboxTopic, olapRows, failedOffsets, effects, logged>>
    /\ UNCHANGED <<rowsVars, validatorVars, validateVars, offPipelineVars>>

\* self._publish_ledger_batch(valid, ledger_rows): producer.produce hands the batch
\* to the client, or raises.
LwPublishLedgerBatch ==
    /\ pc = "publish_ledger_batch"
    /\ \E ok \in BOOLEAN :
         IF ok
         THEN /\ ledgerEntriesTopic' =
                    Append(ledgerEntriesTopic,
                           [tx_id |-> valid.tx_id, note_id |-> valid.note_id,
                            correlation_id |-> valid.correlation_id,
                            entries |-> BuildLedgerRows(valid).rows])
              /\ pc' = RunOrder("publish_ledger_batch")
              /\ effects' = Append(effects, "ledger_batch_publish")
              /\ UNCHANGED <<validTopic, position, committed, msg, failedOffsets, logged>>
         ELSE /\ LwExcept("KafkaException")
              /\ UNCHANGED ledgerEntriesTopic
    /\ UNCHANGED <<inserted, pgBroken, dex_transactions, dex_ledger_entries, dex_outbox,
                   outboxTopic, olapRows>>
    /\ UNCHANGED <<rowsVars, validatorVars, validateVars, offPipelineVars>>

\* self._publish_outbox(outbox_payload)
LwPublishOutbox ==
    /\ pc = "publish_outbox"
    /\ \E ok \in BOOLEAN :
         IF ok
         THEN /\ outboxTopic' = Append(outboxTopic, outbox_payload(valid))
              /\ pc' = RunOrder("publish_outbox")
              /\ effects' = Append(effects, "outbox_publish")
              /\ UNCHANGED <<validTopic, position, committed, msg, failedOffsets, logged>>
         ELSE /\ LwExcept("KafkaException")
              /\ UNCHANGED outboxTopic
    /\ UNCHANGED <<inserted, pgBroken, dex_transactions, dex_ledger_entries, dex_outbox,
                   ledgerEntriesTopic, olapRows>>
    /\ UNCHANGED <<rowsVars, validatorVars, validateVars, offPipelineVars>>

\* self._write_clickhouse(valid): one row into dex_transactions_raw, or an exception.
LwWriteClickhouse ==
    /\ pc = "write_clickhouse"
    /\ \E ok \in BOOLEAN :
         IF ok
         THEN /\ olapRows' = Append(olapRows, [tx_id |-> valid.tx_id, note_id |-> valid.note_id])
              /\ pc' = RunOrder("write_clickhouse")
              /\ effects' = Append(effects, "olap_insert")
              /\ UNCHANGED <<validTopic, position, committed, msg, failedOffsets, logged>>
         ELSE /\ LwExcept("ClickHouseError")
              /\ UNCHANGED olapRows
    /\ UNCHANGED <<inserted, pgBroken, dex_transactions, dex_ledger_entries, dex_outbox,
                   ledgerEntriesTopic, outboxTopic>>
    /\ UNCHANGED <<rowsVars, validatorVars, validateVars, offPipelineVars>>

\* consumer.commit(message=message, asynchronous=False): the group's offset of the
\* partition becomes the message's offset plus one, or the call raises.
LwCommit ==
    /\ pc = "commit"
    /\ \E ok \in BOOLEAN :
         IF ok
         THEN /\ committed' = msg[1].offset + 1
              /\ pc' = "poll"
              /\ effects' = Append(effects, "offset_commit")
              /\ UNCHANGED <<validTopic, position, msg, failedOffsets, logged>>
         ELSE LwExcept("KafkaException")
    /\ UNCHANGED <<inserted, pgBroken, dex_transactions, dex_ledger_entries, dex_outbox,
                   ledgerEntriesTopic, outboxTopic, olapRows>>
    /\ UNCHANGED <<rowsVars, validatorVars, validateVars, offPipelineVars>>

\* The process ends and main() starts it again: a new connection, and the consumer
\* resumes from the group's committed offset.
LwRestart ==
    /\ pc' = "poll"
    /\ position' = committed
    /\ pgBroken' = FALSE
    /\ msg' = <<>>
    /\ inserted' = FALSE
    /\ effects' = <<>>
    /\ logged' = <<>>
    /\ UNCHANGED <<validTopic, committed, dex_transactions, dex_ledger_entries, dex_outbox,
                   ledgerEntriesTopic, outboxTopic, olapRows, failedOffsets>>
    /\ UNCHANGED <<rowsVars, validatorVars, validateVars, offPipelineVars>>

LedgerInit ==
    /\ validTopic = <<>>
    /\ position = 0
    /\ committed = 0
    /\ pc = "poll"
    /\ msg = <<>>
    /\ inserted = FALSE
    /\ pgBroken = FALSE
    /\ dex_transactions = <<>>
    /\ dex_ledger_entries = <<>>
    /\ dex_outbox = <<>>
    /\ ledgerEntriesTopic = <<>>
    /\ outboxTopic = <<>>
    /\ olapRows = <<>>
    /\ failedOffsets = {}
    /\ effects = <<>>
    /\ logged = <<>>

InitLedger == LedgerInit /\ RowsIdle /\ ValidatorIdle /\ ValidateIdle /\ OffPipelineIdle

NextLedger ==
    \/ \E n \in LedgerNotes : ValidTopicAppend(n)
    \/ LwPoll
    \/ LwPersist
    \/ LwBranch
    \/ LwPublishLedgerBatch
    \/ LwPublishOutbox
    \/ LwWriteClickhouse
    \/ LwCommit
    \/ LwRestart

SpecLedger == InitLedger /\ [][NextLedger]_vars

(***************************************************************************)
(* Ledger Writer: properties.                                              *)
(***************************************************************************)
Range(f) == {f[i] : i \in DOMAIN f}

\* Rows or records of a table or topic that carry the note_id.
CountOf(rows, note_id) == Cardinality({i \in 1..Len(rows) : rows[i].note_id = note_id})

OutboxCountOf(note_id) ==
    Cardinality({i \in 1..Len(dex_outbox) : dex_outbox[i].payload.note_id = note_id})

EntriesOf(note_id) == SelectSeq(dex_ledger_entries, LAMBDA r : r.note_id = note_id)

TransactionOf(note_id) ==
    dex_transactions[CHOOSE i \in 1..Len(dex_transactions) :
                        dex_transactions[i].note_id = note_id]

\* The note_id was delivered at an offset the group has committed past.
Consumed(note_id) ==
    \E o \in 0..(committed - 1) : o < Len(validTopic) /\ validTopic[o + 1].note_id = note_id

\* The iteration for msg got past _persist, and the INSERT gave no row back.
DuplicateDelivery == msg # <<>> /\ ~inserted /\ "db_commit" \in Range(effects)

PostCommitEffects == {"ledger_batch_publish", "outbox_publish", "olap_insert"}

\* C1: whatever notes are delivered and however often, the committed tables hold
\* at most one dex_transactions row per note_id; with the row they hold exactly the
\* ledger entries _build_ledger_rows derives from that one note and exactly one
\* outbox row; and a note_id whose delivery has been consumed has its row.
C1_IdempotentPersist ==
    \A id \in NoteIds :
        /\ CountOf(dex_transactions, id) <= 1
        /\ Consumed(id) => CountOf(dex_transactions, id) = 1
        /\ CountOf(dex_transactions, id) = 1 =>
              /\ EntriesOf(id) = BuildLedgerRows(TransactionOf(id)).rows
              /\ OutboxCountOf(id) = 1
        /\ CountOf(dex_transactions, id) = 0 =>
              /\ EntriesOf(id) = <<>>
              /\ OutboxCountOf(id) = 0

\* The same note_id delivered twice and both deliveries consumed: one row, the ten
\* ledger entries of the SWAP, one outbox row.
C1_Witness ==
    /\ Len(validTopic) = 2
    /\ validTopic[1].note_id = "n1"
    /\ validTopic[2].note_id = "n1"
    /\ committed = 2
    /\ CountOf(dex_transactions, "n1") = 1
    /\ Len(EntriesOf("n1")) = 10
    /\ OutboxCountOf("n1") = 1

\* C2: while run() handles a delivery whose INSERT gave no row back, nothing is
\* added to the ledger-entries topic, the outbox topic or the OLAP table, and when
\* the iteration is over without an exception the group's committed offset is the
\* message's offset plus one (so the second of two deliveries of a note leaves 2).
C2_DuplicateNoSideEffects ==
    /\ [](DuplicateDelivery =>
            /\ Range(effects) \cap PostCommitEffects = {}
            /\ pc \in {"after_persist", "commit", "poll"}
            /\ (pc = "poll" /\ "raised" \notin Range(effects)) =>
                  /\ effects = <<"db_commit", "offset_commit">>
                  /\ committed = msg[1].offset + 1)
    /\ [][DuplicateDelivery => UNCHANGED <<ledgerEntriesTopic, outboxTopic, olapRows>>]_vars

\* The second delivery of a note, handled and its offset committed: two offsets.
C2_Witness ==
    /\ DuplicateDelivery
    /\ pc = "poll"
    /\ effects = <<"db_commit", "offset_commit">>
    /\ msg[1].offset = 1
    /\ validTopic[1].note_id = validTopic[2].note_id
    /\ committed = 2
    /\ failedOffsets = {}

\* C3: a note_id with a dex_transactions row never has more than one OLAP row,
\* ledger-entries record or outbox record, and once a delivery of it that found the
\* row already there has been handled and committed, it has exactly one of each.
C3_DownstreamExactlyOnce ==
    /\ \A id \in NoteIds :
          /\ CountOf(olapRows, id) <= 1
          /\ CountOf(ledgerEntriesTopic, id) <= 1
          /\ CountOf(outboxTopic, id) <= 1
    /\ (DuplicateDelivery /\ pc = "poll" /\ effects = <<"db_commit", "offset_commit">>) =>
          /\ CountOf(olapRows, valid.note_id) = 1
          /\ CountOf(ledgerEntriesTopic, valid.note_id) = 1
          /\ CountOf(outboxTopic, valid.note_id) = 1

\* C4: an offset whose processing raised, and which has not been polled again
\* since, is never below the group's committed offset.
C4_FailedNeverMarkedConsumed == \A o \in failedOffsets : committed <= o

\* C5: when run() commits the offset of a message whose INSERT gave a row back, it
\* has before that, in this order, committed the DB transaction, handed the ledger
\* batch and the outbox payload to the producer and inserted the OLAP row, none of
\* them raising; at every moment what it has done for the message is a prefix of
\* that order.
C5_Order == <<"db_commit", "ledger_batch_publish", "outbox_publish", "olap_insert", "offset_commit">>

C7_AtomicPersist ==
    /\ [](\A id \in NoteIds :
            /\ CountOf(dex_transactions, id) >= 1 <=> OutboxCountOf(id) >= 1
            /\ EntriesOf(id) # <<>> => CountOf(dex_transactions, id) >= 1)
    /\ [][(pc = "persist" /\ pc' = "poll" /\ effects' = Append(effects, "raised")) =>
             UNCHANGED <<dex_transactions, dex_ledger_entries, dex_outbox>>]_vars

\* A _persist that raised after an earlier note was committed.
C7_Witness ==
    /\ pgBroken
    /\ pc = "poll"
    /\ effects = <<"raised">>
    /\ Len(dex_transactions) = 1
    /\ Len(dex_outbox) = 1
    /\ Len(dex_ledger_entries) = 10
    /\ valid.note_id = "n2"

(***************************************************************************)
(* _build_ledger_rows on its own.                                          *)
(***************************************************************************)
\* The amount texts tried: zero, two positive values, a negative one (which the
\* validator would not let through) and a NaN (on which add_pair raises).
RowsAmountTexts == {<<"0">>, <<"1">>, <<"0", ".", "2">>, <<"-", "1">>, <<"NaN">>}

RowsTokenPairs == {<<"mUSD", "WETH">>, <<"USD", "USD">>}

RowsInputs ==
    { [ValidNote("n1", "c1", a, t[1], t[2], t[3], t[4], t[5])
         EXCEPT !.token_in = p[1], !.token_out = p[2]] :
        a \in ALLOWED_ACTIONS, t \in [1..5 -> RowsAmountTexts], p \in RowsTokenPairs }

RowsBuild ==
    /\ rowsNote # <<>>
    /\ rowsResult = <<>>
    /\ rowsResult' = << BuildLedgerRows(rowsNote[1]) >>
    /\ UNCHANGED rowsNote
    /\ UNCHANGED <<validTopic, ledgerVars, validatorVars, validateVars, offPipelineVars>>

InitRows ==
    /\ rowsNote \in {<<n>> : n \in RowsInputs}
    /\ rowsResult = <<>>
    /\ LedgerInit
    /\ ValidatorIdle
    /\ ValidateIdle
    /\ OffPipelineIdle

NextRows == RowsBuild

SpecRows == InitRows /\ [][NextRows]_vars

\* d > 0 for a Decimal that is no NaN.
IsPositive(d) == ~d.neg /\ (d.kind = "inf" \/ (d.kind = "finite" /\ d.coeff > 0))

RowsWith(rows, entry_type, asset, side) ==
    {i \in 1..Len(rows) : rows[i].entry_type = entry_type /\ rows[i].asset = asset
                          /\ rows[i].side = side}

\* C6: the rows _build_ledger_rows returns hold, for every (tx_id, entry_type,
\* asset) among them, exactly one debit row and one credit row, of the same amount,
\* and every amount is > 0; an amount <= 0 gives no rows (no positive amount: no
\* rows at all; for a SWAP each of the five entry types is there exactly when its
\* amount is > 0), and a SWAP with five positive amounts gives ten rows.
C6_BalancedPairs ==
    (rowsResult # <<>> /\ ~rowsResult[1].raised) =>
        LET rows == rowsResult[1].rows
            note == rowsNote[1]
            Has(entry_type) == \E i \in 1..Len(rows) : rows[i].entry_type = entry_type
        IN  /\ \A i \in 1..Len(rows) :
                  /\ IsPositive(rows[i].amount)
                  /\ rows[i].tx_id = note.tx_id
                  /\ Cardinality(RowsWith(rows, rows[i].entry_type, rows[i].asset, "debit")) = 1
                  /\ Cardinality(RowsWith(rows, rows[i].entry_type, rows[i].asset, "credit")) = 1
                  /\ \A j \in 1..Len(rows) :
                        (rows[j].entry_type = rows[i].entry_type /\ rows[j].asset = rows[i].asset)
                            => rows[j].amount = rows[i].amount
            /\ (\A f \in {"amount_in", "amount_out", "fee_usd", "protocol_revenue_usd",
                          "gas_cost_usd"} : ~IsPositive(Dec(note[f]))) => rows = <<>>
            /\ note.action = "SWAP" =>
                  /\ Has("swap_notional_in") <=> IsPositive(Dec(note.amount_in))
                  /\ Has("swap_notional_out") <=> IsPositive(Dec(note.amount_out))
                  /\ Has("trade_fee_usd") <=> IsPositive(Dec(note.fee_usd))
                  /\ Has("protocol_revenue_usd") <=> IsPositive(Dec(note.protocol_revenue_usd))
                  /\ Has("gas_cost_usd") <=> IsPositive(Dec(note.gas_cost_usd))
                  /\ Len(rows) =
                        2 * Cardinality({f \in {"amount_in", "amount_out", "fee_usd",
                                                "protocol_revenue_usd", "gas_cost_usd"} :
                                            IsPositive(Dec(note[f]))})

\* A SWAP with five positive amounts: ten rows, five entry types.
C6_Witness ==
    /\ rowsResult # <<>>
    /\ rowsNote[1].action = "SWAP"
    /\ \A f \in {"amount_in", "amount_out", "fee_usd", "protocol_revenue_usd", "gas_cost_usd"} :
          IsPositive(Dec(rowsNote[1][f]))
    /\ ~rowsResult[1].raised
    /\ Len(rowsResult[1].rows) = 10
    /\ Cardinality({rowsResult[1].rows[i].entry_type : i \in 1..10}) = 5

(***************************************************************************)
(* Validator: _validate.                                                   *)
(***************************************************************************)
\* required_fields, in the order the loop tests them.
RequiredFields ==
    <<"note_id", "correlation_id", "tx_hash", "action", "user_address", "pool_address",
      "token_in", "token_out">>

\* The decimal fields, in the order _validate checks them.
DecimalFields ==
    <<"amount_in", "amount_out", "fee_usd", "gas_used", "gas_cost_usd",
      "protocol_revenue_usd", "min_out">>

\* The required fields that fail `not str(value).strip()`, by their index.
MissingFields(raw) ==
    {i \in 1..Len(RequiredFields) : Strip(raw[RequiredFields[i]]) = <<>>}

\* min_out = str(raw.min_out).strip() or '0', with the `or '0'` left out.
MinOutNotCoerced(raw) == Strip(raw.min_out)

\* min_out = str(raw.min_out).strip() or '0'
MinOut(raw) == IF Strip(raw.min_out) = <<>> THEN <<"0">> ELSE Strip(raw.min_out)

\* The checks of _validate_decimal on the parsed value: <<>> when it returns, the
\* exception otherwise.  parsed < 0 on a NaN raises decimal.InvalidOperation.
ValidateParsed(d, lt, field, allow_zero) ==
    IF ~d.ok THEN << <<"ValueError", "invalid decimal field", field>> >>
    ELSE IF lt = "raise" THEN << <<"InvalidOperation", "comparison involving NaN", field>> >>
    ELSE IF lt = "true" THEN << <<"ValueError", "must be >= 0", field>> >>
    ELSE IF ~allow_zero /\ d.kind = "finite" /\ d.coeff = 0
         THEN << <<"ValueError", "must be > 0", field>> >>
    ELSE <<>>

DecimalChecked(d, field, allow_zero) ==
    ValidateParsed(d, IF d.ok THEN DecimalLtZero(d) ELSE "false", field, allow_zero)

\* _validate_decimal(value, field, allow_zero)
ValidateDecimal(value, field, allow_zero) == DecimalChecked(Decimal(value), field, allow_zero)

\* The arguments of the seven _validate_decimal calls, in order.
DecimalArgs(raw) ==
    <<raw.amount_in, raw.amount_out, raw.fee_usd, raw.gas_used, raw.gas_cost_usd,
      raw.protocol_revenue_usd, MinOut(raw)>>

\* The first of the seven calls that raises, from call i on: its exception, or <<>>.
RECURSIVE FirstDecimalError(_, _)
FirstDecimalError(args, i) ==
    IF i > Len(args) THEN <<>>
    ELSE IF ValidateDecimal(args[i], DecimalFields[i], TRUE) # <<>>
         THEN ValidateDecimal(args[i], DecimalFields[i], TRUE)
    ELSE FirstDecimalError(args, i + 1)

\* The DexTxValid message with the tx_id taken over the correlation_id in place of
\* the note_id.
DexTxValidKeyedByCorrelation(raw, min_out) ==
    [tx_id |-> TxIdOf(raw.chain_id, raw.tx_hash, raw.correlation_id),
     note_id |-> raw.note_id,
     correlation_id |-> raw.correlation_id,
     chain_id |-> raw.chain_id,
     tx_hash |-> raw.tx_hash,
     action |-> raw.action,
     user_address |-> raw.user_address,
     pool_address |-> raw.pool_address,
     token_in |-> raw.token_in,
     token_out |-> raw.token_out,
     amount_in |-> raw.amount_in,
     amount_out |-> raw.amount_out,
     fee_usd |-> raw.fee_usd,
     gas_used |-> raw.gas_used,
     gas_cost_usd |-> raw.gas_cost_usd,
     protocol_revenue_usd |-> raw.protocol_revenue_usd,
     block_number |-> raw.block_number,
     validation_version |-> "v1",
     min_out |-> min_out,
     occurred_at |-> IF raw.occurred_at # <<>> THEN raw.occurred_at ELSE <<"now">>]

\* The DexTxValid message _validate builds.
DexTxValid(raw, min_out) ==
    [tx_id |-> TxIdOf(raw.chain_id, raw.tx_hash, raw.note_id),
     note_id |-> raw.note_id,
     correlation_id |-> raw.correlation_id,
     chain_id |-> raw.chain_id,
     tx_hash |-> raw.tx_hash,
     action |-> raw.action,
     user_address |-> raw.user_address,
     pool_address |-> raw.pool_address,
     token_in |-> raw.token_in,
     token_out |-> raw.token_out,
     amount_in |-> raw.amount_in,
     amount_out |-> raw.amount_out,
     fee_usd |-> raw.fee_usd,
     gas_used |-> raw.gas_used,
     gas_cost_usd |-> raw.gas_cost_usd,
     protocol_revenue_usd |-> raw.protocol_revenue_usd,
     block_number |-> raw.block_number,
     validation_version |-> "v1",
     min_out |-> min_out,
     occurred_at |-> IF raw.occurred_at # <<>> THEN raw.occurred_at ELSE <<"now">>]

ValidateReturn(raised, error, value) == [raised |-> raised, error |-> error, valid |-> value]

\* _validate after the required fields and chain_id passed.
ValidateChecked(raw, decimal_error) ==
    IF raw.action \notin {<<a>> : a \in ALLOWED_ACTIONS}
    THEN ValidateReturn(TRUE, <<"ValueError", "unsupported action", "action">>, <<>>)
    ELSE IF decimal_error # <<>>
    THEN ValidateReturn(TRUE, decimal_error[1], <<>>)
    ELSE ValidateReturn(FALSE, <<>>, << DexTxValid(raw, MinOut(raw)) >>)

\* _validate after the loop over required_fields.
ValidateRequired(raw, missing) ==
    IF missing # {}
    THEN ValidateReturn(TRUE,
             <<"ValueError", "missing field",
               RequiredFields[CHOOSE i \in missing : \A j \in missing : i <= j]>>, <<>>)
    ELSE IF raw.chain_id <= 0
    THEN ValidateReturn(TRUE, <<"ValueError", "chain_id must be > 0", "chain_id">>, <<>>)
    ELSE ValidateChecked(raw, FirstDecimalError(DecimalArgs(raw), 1))

\* _validate(raw): the valid note, or the exception it raises.
Validate(raw) == ValidateRequired(raw, MissingFields(raw))

(***************************************************************************)
(* _validate on its own.                                                   *)
(***************************************************************************)
\* A raw note that passes every check.
RawBase ==
    [note_id |-> <<"n1">>,
     correlation_id |-> <<"c1">>,
     chain_id |-> 31337,
     tx_hash |-> <<"0xtx">>,
     action |-> <<"SWAP">>,
     user_address |-> <<"0xUSER">>,
     pool_address |-> <<"0xPOOL">>,
     token_in |-> <<"mUSD">>,
     token_out |-> <<"WETH">>,
     amount_in |-> <<"1", "0">>,
     amount_out |-> <<"0", ".", "2">>,
     fee_usd |-> <<"1">>,
     gas_used |-> <<"2", "1">>,
     gas_cost_usd |-> <<"1">>,
     protocol_revenue_usd |-> <<"2">>,
     min_out |-> <<"0", ".", "1">>,
     block_number |-> 7,
     occurred_at |-> <<"t1">>]

\* Texts tried in a required field: empty, blank, padded, plain.
RawTexts == {<<>>, <<" ">>, <<" ", " ">>, <<" ", "x", " ">>, <<"x">>}

\* Texts tried in the action field.
RawActions ==
    {<<a>> : a \in ALLOWED_ACTIONS}
        \cup {<<>>, <<" ">>, <<"swap">>, <<" ", "SWAP">>, <<"SWAP", " ">>, <<"BOGUS">>}

\* Texts tried in a decimal field.
RawDecimals ==
    {<<>>, <<" ">>, <<" ", " ">>, <<"0">>, <<"-", "0">>, <<"1">>, <<" ", "1", " ">>,
     <<"-", "1">>, <<"-", "0", ".", "1">>, <<"1", ".", "2">>, <<".">>, <<"-">>, <<"x">>,
     <<"1", " ", "2">>, <<"NaN">>, <<"-", "NaN">>, <<"Inf">>, <<"-", "Inf">>}

RawChainIds == {0 - 1, 0, 1, 31337}

\* One field of a raw note given another value: <<field, value>>.
RawChanges ==
    {<<f, v>> : f \in {RequiredFields[i] : i \in 1..Len(RequiredFields)} \ {"action"},
                v \in RawTexts}
        \cup {<<"action", v>> : v \in RawActions}
        \cup {<<"chain_id", v>> : v \in RawChainIds}
        \cup {<<f, v>> : f \in {DecimalFields[i] : i \in 1..Len(DecimalFields)},
                         v \in RawDecimals}
        \cup {<<"occurred_at", <<>> >>}

\* The raw notes tried: RawBase with up to two fields changed.
RawInputs ==
    {[[RawBase EXCEPT ![a[1]] = a[2]] EXCEPT ![b[1]] = b[2]] : a, b \in RawChanges}

ValidateCall ==
    /\ validateRaw # <<>>
    /\ validateResult = <<>>
    /\ validateResult' = << Validate(validateRaw[1]) >>
    /\ UNCHANGED validateRaw
    /\ UNCHANGED <<validTopic, ledgerVars, rowsVars, validatorVars, offPipelineVars>>

InitValidate ==
    /\ validateRaw \in {<<r>> : r \in RawInputs}
    /\ validateResult = <<>>
    /\ LedgerInit
    /\ RowsIdle
    /\ ValidatorIdle
    /\ OffPipelineIdle

NextValidate == ValidateCall

SpecValidate == InitValidate /\ [][NextValidate]_vars

(***************************************************************************)
(* _validate: properties.                                                  *)
(***************************************************************************)
\* The text has a character that is no whitespace.
NonEmptyAfterTrim(s) == \E i \in 1..Len(s) : s[i] # " "

\* The text parses as a decimal whose value is >= 0 (a NaN is not).
ParsesNonNegative(s) ==
    /\ Decimal(s).ok
    /\ \/ Decimal(s).kind = "inf" /\ ~Decimal(s).neg
       \/ Decimal(s).kind = "finite" /\ (~Decimal(s).neg \/ Decimal(s).coeff = 0)

\* What the claim asks of every field but min_out.
FieldsAcceptable(raw) ==
    /\ \A i \in 1..Len(RequiredFields) : NonEmptyAfterTrim(raw[RequiredFields[i]])
    /\ raw.chain_id > 0
    /\ \E a \in ALLOWED_ACTIONS : raw.action = <<a>>
    /\ \A i \in 1..(Len(DecimalFields) - 1) : ParsesNonNegative(raw[DecimalFields[i]])

Accepted == validateResult # <<>> /\ ~validateResult[1].raised

\* C10 as stated: _validate accepts a raw note if and only if the eight required
\* fields are non-empty after trimming, chain_id > 0, action is one of the nine enum
\* values and the seven decimal fields parse as decimals >= 0, where an empty
\* min_out counts as 0 and an empty value in another decimal field is rejected.
C10_AcceptsIffEmptyMinOut ==
    validateResult # <<>> =>
        (Accepted <=>
            /\ FieldsAcceptable(validateRaw[1])
            /\ (validateRaw[1].min_out = <<>> \/ ParsesNonNegative(validateRaw[1].min_out)))

\* C10 amended: as C10, where a min_out that is empty after trimming (empty or
\* whitespace only) counts as 0.
C10_AcceptsIffBlankMinOut ==
    validateResult # <<>> =>
        (Accepted <=>
            /\ FieldsAcceptable(validateRaw[1])
            /\ \/ ~NonEmptyAfterTrim(validateRaw[1].min_out)
               \/ ParsesNonNegative(validateRaw[1].min_out))

\* _validate accepted a note whose min_out is empty and gave it min_out "0", and the
\* note's amount_in is padded with whitespace.
C10_Witness ==
    /\ Accepted
    /\ validateRaw[1].min_out = <<>>
    /\ validateResult[1].valid[1].min_out = <<"0">>
    /\ validateRaw[1].amount_in = <<" ", "1", " ">>

(***************************************************************************)
(* Validator: run().                                                       *)
(***************************************************************************)
\* The bytes of a raw-topic message: a serialized DexTxRaw, or bytes that
\* ParseFromString rejects (note is not read then).
RawMessage(decodes, note) == [decodes |-> decodes, note |-> note]

\* The messages tried: a note that passes _validate, the same event in a second
\* note (another correlation_id, amount and timestamp), one with a blank note_id,
\* one with a NaN amount, and bytes that do not decode.
RawMessages ==
    {RawMessage(TRUE, RawBase),
     RawMessage(TRUE, [RawBase EXCEPT !.correlation_id = <<"c2">>, !.amount_in = <<"2">>,
                                      !.occurred_at = <<>>]),
     RawMessage(TRUE, [RawBase EXCEPT !.note_id = <<" ">>]),
     RawMessage(TRUE, [RawBase EXCEPT !.amount_in = <<"NaN">>]),
     RawMessage(FALSE, RawBase)}

\* payload.hex()
Hex(payload) == <<"hex", payload>>

\* The JSON object _publish_dlq sends.
DlqRecord(payload, error) == [error |-> error, payload_hex |-> Hex(payload)]

\* The API (or anyone) appends a message to the raw topic.
RawTopicAppend(m) ==
    /\ Len(rawTopic) < MaxRawLen
    /\ rawTopic' = Append(rawTopic, m)
    /\ UNCHANGED <<rawPosition, rawCommitted, vpc, message, validated, exc, dlqTopic,
                   outcome>>
    /\ UNCHANGED <<validTopic, ledgerVars, rowsVars, validateVars, offPipelineVars>>

\* consumer.poll returned a message: the next one of the partition.
NvPoll ==
    /\ vpc = "poll"
    /\ rawPosition < Len(rawTopic)
    /\ message' = << [offset |-> rawPosition, value |-> rawTopic[rawPosition + 1]] >>
    /\ rawPosition' = rawPosition + 1
    /\ vpc' = "validate"
    /\ validated' = <<>>
    /\ exc' = <<>>
    /\ outcome' = <<>>
    /\ UNCHANGED <<rawTopic, rawCommitted, dlqTopic>>
    /\ UNCHANGED <<validTopic, ledgerVars, rowsVars, validateVars, offPipelineVars>>

\* `except Exception as exc:` of run(): every exception of the try block gets here.
NvExcept(error) ==
    /\ exc' = <<error>>
    /\ vpc' = "publish_dlq"

\* raw.ParseFromString(message.value()); valid = self._validate(raw)
NvValidate ==
    /\ vpc = "validate"
    /\ IF ~message[1].value.decodes
       THEN /\ NvExcept(<<"DecodeError", "error parsing message", "">>)
            /\ UNCHANGED validated
       ELSE IF Validate(message[1].value.note).raised
       THEN /\ NvExcept(Validate(message[1].value.note).error)
            /\ UNCHANGED validated
       ELSE /\ validated' = Validate(message[1].value.note).valid
            /\ vpc' = "produce"
            /\ UNCHANGED exc
    /\ UNCHANGED <<rawTopic, rawPosition, rawCommitted, message, dlqTopic, outcome>>
    /\ UNCHANGED <<validTopic, ledgerVars, rowsVars, validateVars, offPipelineVars>>

\* self.producer.produce(topic=dex_tx_valid_topic, key=valid.note_id, ...);
\* self.producer.poll(0): the record is handed to the client, or produce raises.
NvProduce ==
    /\ vpc = "produce"
    /\ \E ok \in BOOLEAN :
         IF ok
         THEN /\ Len(validTopic) < MaxTopicLen
              /\ validTopic' = Append(validTopic, validated[1])
              /\ outcome' = Append(outcome, "valid")
              /\ vpc' = "commit"
              /\ UNCHANGED exc
         ELSE /\ NvExcept(<<"KafkaException", "produce", "">>)
              /\ UNCHANGED <<validTopic, outcome>>
    /\ UNCHANGED <<rawTopic, rawPosition, rawCommitted, message, validated, dlqTopic>>
    /\ UNCHANGED <<ledgerVars, rowsVars, validateVars, offPipelineVars>>

\* self.consumer.commit(message=message, asynchronous=False) of the try block.
NvCommit ==
    /\ vpc = "commit"
    /\ \E ok \in BOOLEAN :
         IF ok
         THEN /\ rawCommitted' = message[1].offset + 1
              /\ outcome' = Append(outcome, "offset_commit")
              /\ vpc' = "poll"
              /\ UNCHANGED exc
         ELSE /\ NvExcept(<<"KafkaException", "commit", "">>)
              /\ UNCHANGED <<rawCommitted, outcome>>
    /\ UNCHANGED <<rawTopic, rawPosition, message, validated, dlqTopic>>
    /\ UNCHANGED <<validTopic, ledgerVars, rowsVars, validateVars, offPipelineVars>>

\* self._publish_dlq(message.value(), error=str(exc)) of the except branch.  An
\* exception here is raised outside any try: it leaves run().
NvPublishDlq ==
    /\ vpc = "publish_dlq"
    /\ \E ok \in BOOLEAN :
         IF ok
         THEN /\ Len(dlqTopic) < MaxDlqLen
              /\ dlqTopic' = Append(dlqTopic, DlqRecord(message[1].value, exc[1]))
              /\ outcome' = Append(outcome, "dlq")
              /\ vpc' = "dlq_commit"
         ELSE /\ vpc' = "stopped"
              /\ UNCHANGED <<dlqTopic, outcome>>
    /\ UNCHANGED <<rawTopic, rawPosition, rawCommitted, message, validated, exc>>
    /\ UNCHANGED <<validTopic, ledgerVars, rowsVars, validateVars, offPipelineVars>>

\* self.consumer.commit(message=message, asynchronous=False) of the except branch.
NvDlqCommit ==
    /\ vpc = "dlq_commit"
    /\ \E ok \in BOOLEAN :
         IF ok
         THEN /\ rawCommitted' = message[1].offset + 1
              /\ outcome' = Append(outcome, "offset_commit")
              /\ vpc' = "poll"
         ELSE /\ vpc' = "stopped"
              /\ UNCHANGED <<rawCommitted, outcome>>
    /\ UNCHANGED <<rawTopic, rawPosition, message, validated, exc, dlqTopic>>
    /\ UNCHANGED <<validTopic, ledgerVars, rowsVars, validateVars, offPipelineVars>>

\* The process ends and main() starts it again: the consumer resumes from the
\* group's committed offset.
NvRestart ==
    /\ vpc' = "poll"
    /\ rawPosition' = rawCommitted
    /\ message' = <<>>
    /\ validated' = <<>>
    /\ exc' = <<>>
    /\ outcome' = <<>>
    /\ UNCHANGED <<rawTopic, rawCommitted, dlqTopic>>
    /\ UNCHANGED <<validTopic, ledgerVars, rowsVars, validateVars, offPipelineVars>>

InitValidator == ValidatorIdle /\ LedgerInit /\ RowsIdle /\ ValidateIdle /\ OffPipelineIdle

NextValidator ==
    \/ \E m \in RawMessages : RawTopicAppend(m)
    \/ NvPoll
    \/ NvValidate
    \/ NvProduce
    \/ NvCommit
    \/ NvPublishDlq
    \/ NvDlqCommit
    \/ NvRestart

SpecValidator == InitValidator /\ [][NextValidator]_vars

(***************************************************************************)
(* Validator: properties.                                                  *)
(***************************************************************************)
\* C8: for every raw message the Validator consumes exactly one of two outcomes
\* happens and then the source offset is committed: a valid note is published, or
\* a DLQ record is published; never both for the same message, and the loop goes on
\* to the next message in either case.
C8_ExactlyOneOutcome ==
    /\ vpc # "stopped"
    /\ ~({"valid", "dlq"} \subseteq Range(outcome))
    /\ (vpc = "poll" /\ message # <<>>) =>
           outcome \in {<<"valid", "offset_commit">>, <<"dlq", "offset_commit">>}

\* C9: a DLQ record is produced only when validation of the note fails; an
\* infrastructure error while handling a note that passed validation never
\* produces one.
C9_DlqOnlyForValidationFailure ==
    \A i \in 1..Len(dlqTopic) :
        \/ ~dlqTopic[i].payload_hex[2].decodes
        \/ Validate(dlqTopic[i].payload_hex[2].note).raised

\* C11: the tx_id of a valid note depends only on (chain_id, tx_hash, note_id): any
\* two valid notes the Validator published that agree on the three fields (the same
\* raw note validated again after a redelivery, or two raw notes that differ
\* elsewhere) carry the same tx_id.
C11_TxIdStable ==
    \A i, j \in 1..Len(validTopic) :
        (/\ validTopic[i].chain_id = validTopic[j].chain_id
         /\ validTopic[i].tx_hash = validTopic[j].tx_hash
         /\ validTopic[i].note_id = validTopic[j].note_id)
            => validTopic[i].tx_id = validTopic[j].tx_id

\* Two valid notes of one event were published from raw notes that differ in the
\* correlation_id, the amount and the timestamp.
C11_Witness ==
    /\ Len(validTopic) = 2
    /\ validTopic[1].note_id = validTopic[2].note_id
    /\ validTopic[1].correlation_id # validTopic[2].correlation_id
    /\ validTopic[1].amount_in # validTopic[2].amount_in
    /\ validTopic[1].occurred_at # validTopic[2].occurred_at

(***************************************************************************)
(* Indexer: the chain, the registry file and _poll_chain_once.             *)
(*                                                                         *)
(* A log is what eth_getLogs returns of it: blockNumber, logIndex,         *)
(* address, the event of topics[0] and transactionHash.  The amounts a     *)
(* handler decodes from the log's data, the gas metrics and the block      *)
(* timestamp are copied into the raw note and read by nothing in the       *)
(* Indexer; the notes of the model leave them out.                         *)
(***************************************************************************)
ChainLog(blockNumber, logIndex, address, event, transactionHash) ==
    [blockNumber |-> blockNumber, logIndex |-> logIndex, address |-> address,
     event |-> event, transactionHash |-> transactionHash]

\* The logs of the chain: two transactions that each touch a pair and the
\* stabilizer, and a later pair event.
ChainLogs ==
    {ChainLog(1, 0, "0xPAIR", "Swap", "0xa"),
     ChainLog(1, 1, "0xSTAB", "NoteMinted", "0xa"),
     ChainLog(2, 0, "0xSTAB", "NoteBurned", "0xb"),
     ChainLog(2, 1, "0xPAIR", "Mint", "0xb"),
     ChainLog(120, 0, "0xPAIR", "Burn", "0xc")}

\* The head blocks the endpoint reports over time.
ChainHeads == {0, 1, 2, 3, 120, 250}

\* topics[0] of the pair filter and of the stabilizer filter.
PairEvents == {"Swap", "Mint", "Burn"}

StabilizerEvents == {"NoteMinted", "NoteBurned"}

\* The action a handler gives the raw note of an event.
ActionOfEvent(event) ==
    CASE event = "Swap" -> "SWAP"
      [] event = "Mint" -> "LIQUIDITY_ADD"
      [] event = "Burn" -> "LIQUIDITY_REMOVE"
      [] event = "NoteMinted" -> "MUSD_MINT"
      [] OTHER -> "MUSD_BURN"

\* log a comes before log b in (blockNumber, logIndex) order.
LogBefore(a, b) ==
    \/ a.blockNumber < b.blockNumber
    \/ a.blockNumber = b.blockNumber /\ a.logIndex < b.logIndex

\* A set of logs in (blockNumber, logIndex) order, as eth_getLogs returns them.
RECURSIVE LogsInOrder(_)
LogsInOrder(logs) ==
    IF logs = {} THEN <<>>
    ELSE <<CHOOSE a \in logs : \A b \in logs \ {a} : LogBefore(a, b)>>
             \o LogsInOrder(logs \ {CHOOSE a \in logs : \A b \in logs \ {a} : LogBefore(a, b)})

\* web3.eth.get_logs({fromBlock, toBlock, address, topics}) on a chain of the
\* given head.
GetLogs(chain_head, from_block, to_block, addresses, events) ==
    LogsInOrder({l \in ChainLogs :
                    /\ l.blockNumber <= chain_head
                    /\ from_block <= l.blockNumber /\ l.blockNumber <= to_block
                    /\ \E i \in 1..Len(addresses) : addresses[i] = l.address
                    /\ l.event \in events})

\* uuid5(NAMESPACE_URL, "{chain_id}:{tx_hash}:{log_index}:{action}"): a hash of the
\* four fields, modelled as the four fields.
NoteIdOf(chain_id, tx_hash, log_index, action) ==
    <<"uuid5", chain_id, tx_hash, log_index, action>>

\* _publish_raw_note with the note_id taken over the correlation_id too.
RawNoteOfLogFreshId(chain_id, log, uuid4) ==
    [note_id |-> <<"uuid5", chain_id, log.transactionHash, log.logIndex,
                   ActionOfEvent(log.event), uuid4>>,
     correlation_id |-> <<"uuid4", uuid4>>,
     chain_id |-> chain_id,
     tx_hash |-> log.transactionHash,
     action |-> ActionOfEvent(log.event),
     pool_address |-> log.address,
     block_number |-> log.blockNumber,
     log_index |-> log.logIndex,
     source |-> "chain-indexer"]

\* The DexTxRaw note _publish_raw_note builds for a log; uuid4 stands for the
\* random correlation_id.  log_index is kept to tell the notes of the model apart
\* (the message carries it inside the note_id only).
RawNoteOfLog(chain_id, log, uuid4) ==
    [note_id |-> NoteIdOf(chain_id, log.transactionHash, log.logIndex,
                          ActionOfEvent(log.event)),
     correlation_id |-> <<"uuid4", uuid4>>,
     chain_id |-> chain_id,
     tx_hash |-> log.transactionHash,
     action |-> ActionOfEvent(log.event),
     pool_address |-> log.address,
     block_number |-> log.blockNumber,
     log_index |-> log.logIndex,
     source |-> "chain-indexer"]

Min(a, b) == IF a <= b THEN a ELSE b

\* One step of a poll that can raise: a get_logs call, or the handling of one log
\* (its RPC reads, the decoding and the produce).
PollItem(kind, source, log) == [kind |-> kind, source |-> source, log |-> log]

\* _poll_pair_events or _poll_stabilizer_events: the call and the loop over its logs.
PollEvents(source, logs) ==
    <<PollItem("get_logs", source, <<>>)>>
        \o [i \in 1..Len(logs) |-> PollItem("handle", source, <<logs[i]>>)]

\* The statements of _poll_chain_once after to_block: the pair events, then the
\* stabilizer events.
PollWork(chain_head, from_block, to_block, pairs, stabilizers) ==
    (IF pairs # <<>>
     THEN PollEvents("pair", GetLogs(chain_head, from_block, to_block, pairs, PairEvents))
     ELSE <<>>)
    \o
    (IF stabilizers # <<>>
     THEN PollEvents("stabilizer",
                     GetLogs(chain_head, from_block, to_block, stabilizers, StabilizerEvents))
     ELSE <<>>)

\* What a call of _poll_chain_once did: current_block after it, whether it raised,
\* latest, the range queried, the steps of the range and those that completed.
PollReturn(cur, raised, latest, range, work, done) ==
    [current_block |-> cur, raised |-> raised, latest |-> latest, range |-> range,
     work |-> work, done |-> done]

\* self.current_block = to_block + 1
PollAdvance(to_block, cur, work) == <<to_block + 1>>

\* The same with current_block set before the range is handled, so that a step that
\* raises leaves it advanced.
PollQueriedAdvancesFirst(cur, latest, from_block, to_block, work, failAt) ==
    IF failAt <= Len(work)
    THEN PollReturn(<<to_block + 1>>, TRUE, <<latest>>, <<from_block, to_block>>, work,
                    SubSeq(work, 1, failAt - 1))
    ELSE PollReturn(<<to_block + 1>>, FALSE, <<latest>>, <<from_block, to_block>>, work,
                    work)

\* The range is queried and handled; step failAt raises, if there is one.
PollQueried(cur, latest, from_block, to_block, work, failAt) ==
    IF failAt <= Len(work)
    THEN PollReturn(cur, TRUE, <<latest>>, <<from_block, to_block>>, work,
                    SubSeq(work, 1, failAt - 1))
    ELSE PollReturn(PollAdvance(to_block, cur, work), FALSE, <<latest>>,
                    <<from_block, to_block>>, work, work)

\* to_block = min(latest, from_block + 100) with the cap left out.
ToBlockUncapped(latest, from_block) == latest

\* to_block = min(latest, from_block + 100)
ToBlock(latest, from_block) == Min(latest, from_block + 100)

\* _poll_chain_once from `if self.current_block > latest` on.
PollFrom(cur, chain_head, latest, pairs, stabilizers, failAt) ==
    IF cur[1] > latest
    THEN PollReturn(cur, FALSE, <<latest>>, <<>>, <<>>, <<>>)
    ELSE PollQueried(cur, latest, cur[1], ToBlock(latest, cur[1]),
                     PollWork(chain_head, cur[1], ToBlock(latest, cur[1]), pairs,
                              stabilizers),
                     failAt)

\* _poll_chain_once: failAt = 0 stands for web3.eth.block_number raising, which it
\* does when the endpoint is down.
PollChainOnce(cur, chain_head, up, depth, pairs, stabilizers, failAt) ==
    IF ~up \/ failAt = 0
    THEN PollReturn(cur, TRUE, <<>>, <<>>, <<>>, <<>>)
    ELSE IF chain_head - depth < 0
    THEN PollReturn(cur, FALSE, <<chain_head - depth>>, <<>>, <<>>, <<>>)
    ELSE PollFrom(IF cur = <<>> THEN <<chain_head - depth>> ELSE cur, chain_head,
                  chain_head - depth, pairs, stabilizers, failAt)

\* The steps of a poll that can raise, by number; a number past the last step
\* stands for no failure.
PollFailPoints == 0..8

\* The logs whose handling completed, in the order handled.
RECURSIVE HandledLogs(_)
HandledLogs(done) ==
    IF done = <<>> THEN <<>>
    ELSE (IF Head(done).kind = "handle" THEN Head(done).log ELSE <<>>)
             \o HandledLogs(Tail(done))

(***************************************************************************)
(* Indexer: the registry watchlists.                                       *)
(***************************************************************************)
\* A chain of the registry snapshot: its indexer section and its pairs.
RegistryChain(pairs_watched, stabilizers_watched, pairs) ==
    [chain_key |-> "hardhat-local", chain_id |-> 31337,
     pair_addresses |-> pairs_watched, stabilizer_addresses |-> stabilizers_watched,
     pairs |-> pairs]

\* _load_chain_from_registry(chain_key): <<>> for {} (no file, no such chain).
LoadChainFromRegistry(file, chain_key) ==
    IF \E i \in 1..Len(file.chains) : file.chains[i].chain_key = chain_key
    THEN <<file.chains[CHOOSE i \in 1..Len(file.chains) :
                          /\ file.chains[i].chain_key = chain_key
                          /\ \A j \in 1..(i - 1) : file.chains[j].chain_key # chain_key]>>
    ELSE <<>>

\* Web3.is_address
IsAddress(value) == value \in {"0xpair", "0xstab", "0xPAIR", "0xSTAB"}

\* Web3.to_checksum_address on the addresses of the model.
ToChecksumAddress(value) ==
    CASE value = "0xpair" -> "0xPAIR"
      [] value = "0xstab" -> "0xSTAB"
      [] OTHER -> value

\* _normalize_addresses: the valid addresses, in checksum form.
RECURSIVE NormalizeAddresses(_)
NormalizeAddresses(values) ==
    IF values = <<>> THEN <<>>
    ELSE (IF IsAddress(Head(values)) THEN <<ToChecksumAddress(Head(values))>> ELSE <<>>)
             \o NormalizeAddresses(Tail(values))

\* The watchlists, the time of the last refresh and the pair-metadata cache.
Watchlists(pairs, stabilizers, refreshed_at, meta_cache) ==
    [pair_addresses |-> pairs, stabilizer_addresses |-> stabilizers,
     last_registry_refresh_at |-> refreshed_at, pair_meta_cache |-> meta_cache]

\* The same with both lists replaced whether or not the environment overrides them.
ReplaceWatchlistsOverridden(cfg, w, t, registry_pairs, registry_stabilizers) ==
    Watchlists(registry_pairs, registry_stabilizers, t,
               IF registry_pairs # w.pair_addresses THEN {} ELSE w.pair_meta_cache)

\* _refresh_registry_watchlists from `if not self.settings.pair_addresses_overridden`
\* on: registry_pairs and registry_stabilizers are the normalized lists of the chain.
ReplaceWatchlists(cfg, w, t, registry_pairs, registry_stabilizers) ==
    Watchlists(
        IF ~cfg.pair_addresses_overridden THEN registry_pairs ELSE w.pair_addresses,
        IF ~cfg.stabilizer_addresses_overridden
        THEN registry_stabilizers ELSE w.stabilizer_addresses,
        t,
        IF ~cfg.pair_addresses_overridden /\ registry_pairs # w.pair_addresses
        THEN {} ELSE w.pair_meta_cache)

\* _refresh_registry_watchlists after self._last_registry_refresh_at = now.
RefreshFromChain(cfg, w, t, chain) ==
    IF chain = <<>>
    THEN Watchlists(w.pair_addresses, w.stabilizer_addresses, t, w.pair_meta_cache)
    ELSE ReplaceWatchlists(cfg, w, t, NormalizeAddresses(chain[1].pair_addresses),
                           NormalizeAddresses(chain[1].stabilizer_addresses))

\* _refresh_registry_watchlists(force=False) at time t.
RefreshRegistryWatchlists(cfg, w, t, file) ==
    IF cfg.pair_addresses_overridden /\ cfg.stabilizer_addresses_overridden THEN w
    ELSE IF cfg.registry_refresh_seconds <= 0 THEN w
    ELSE IF t - w.last_registry_refresh_at < cfg.registry_refresh_seconds THEN w
    ELSE RefreshFromChain(cfg, w, t, LoadChainFromRegistry(file, cfg.chain_key))

\* Settings: what _settings_from_env reads from the environment.  An RPC URL is
\* configured and the simulation is off, as by default.
IndexerSettings ==
    {[chain_key |-> "hardhat-local", chain_id |-> 31337, start_block |-> sb,
      confirmation_depth |-> depth, poll_interval_seconds |-> 1,
      registry_refresh_seconds |-> 2, enable_simulation |-> FALSE,
      pair_addresses_overridden |-> ov, stabilizer_addresses_overridden |-> ov,
      env_pair_addresses |-> IF ov THEN <<"0xpair">> ELSE <<>>,
      env_stabilizer_addresses |-> IF ov THEN <<"0xstab", "bad">> ELSE <<>>] :
        sb \in {<<>>, <<0>>}, depth \in {0, 2}, ov \in BOOLEAN}

\* The watchlist _settings_from_env builds: the registry's list unless the
\* environment overrides it or the registry has none.
InitialWatchlist(overridden, env_list, registry_list) ==
    NormalizeAddresses(IF ~overridden /\ registry_list # <<>> THEN registry_list
                       ELSE env_list)

\* The registry snapshots written while the Indexer runs.
IndexerRegistryChains ==
    {<<>>} \cup {<<RegistryChain(p, st, <<>>)>> :
                    p \in {<<>>, <<"0xpair", "bad">>}, st \in {<<>>, <<"0xstab">>}}

(***************************************************************************)
(* Indexer: run().                                                         *)
(***************************************************************************)
\* The raw notes of the logs handled, as the messages produced; the k-th of them
\* draws the (published + k)-th uuid4.
PublishedNotes(chain_id, logs, published) ==
    [k \in 1..Len(logs) |-> RawMessage(TRUE, RawNoteOfLog(chain_id, logs[k], published + k))]

\* The head of the chain moves on.
ChainAdvance ==
    /\ \E h \in ChainHeads : h > head /\ head' = h
    /\ UNCHANGED <<now, registryFile, rpcUp>>
    /\ UNCHANGED <<rawTopic, indexerVars>>
    /\ UNCHANGED <<validTopic, ledgerVars, rowsVars, validatorLocalVars, validateVars>>
    /\ UNCHANGED <<quoteVars, extVars>>

\* The RPC endpoint goes down or comes back.
RpcChange ==
    /\ rpcUp' = ~rpcUp
    /\ UNCHANGED <<now, registryFile, head>>
    /\ UNCHANGED <<rawTopic, indexerVars>>
    /\ UNCHANGED <<validTopic, ledgerVars, rowsVars, validatorLocalVars, validateVars>>
    /\ UNCHANGED <<quoteVars, extVars>>

\* The registry builder writes a new snapshot.
RegistryWrite(chains) ==
    /\ registryFile.version < MaxVersion
    /\ registryFile' = [version |-> registryFile.version + 1, chains |-> chains]
    /\ UNCHANGED <<now, head, rpcUp>>
    /\ UNCHANGED <<rawTopic, indexerVars>>
    /\ UNCHANGED <<validTopic, ledgerVars, rowsVars, validatorLocalVars, validateVars>>
    /\ UNCHANGED <<quoteVars, extVars>>

\* run() before its loop: the endpoint is probed once.
IdxStart ==
    /\ ipc = "start"
    /\ ipc' = "loop"
    /\ web3' = rpcUp
    /\ UNCHANGED <<settings, current_block, pair_addresses, stabilizer_addresses,
                   last_registry_refresh_at, pair_meta_cache, registrySeen, lastLoop>>
    /\ UNCHANGED <<rawTopic, envVars>>
    /\ UNCHANGED <<validTopic, ledgerVars, rowsVars, validatorLocalVars, validateVars>>
    /\ UNCHANGED <<quoteVars, extVars>>

\* What an iteration leaves in the log: the endpoint's state and the watchlists it
\* ran with, whether _poll_chain_once was called, current_block before it and what
\* the call did.
LoopRecord(up, w, called, before, r) ==
    [rpcUp |-> up, watched |-> w.pair_addresses # <<>> \/ w.stabilizer_addresses # <<>>,
     called |-> called, before |-> before, current_block |-> r.current_block,
     raised |-> r.raised, latest |-> r.latest, range |-> r.range, work |-> r.work,
     done |-> r.done]

\* The iteration with the watchlists w after the refresh and r from _poll_chain_once
\* (or from nothing, when it is not called).  time.sleep runs once, and once more in
\* the except branch.
IdxLoopDone(w, called, r) ==
    /\ pair_addresses' = w.pair_addresses
    /\ stabilizer_addresses' = w.stabilizer_addresses
    /\ last_registry_refresh_at' = w.last_registry_refresh_at
    /\ pair_meta_cache' =
           w.pair_meta_cache
               \cup {r.done[i].log[1].address :
                        i \in {j \in 1..Len(r.done) :
                                  r.done[j].kind = "handle" /\ r.done[j].source = "pair"}}
    /\ registrySeen' =
           IF w.last_registry_refresh_at # last_registry_refresh_at
           THEN <<registryFile.version>> ELSE registrySeen
    /\ current_block' = r.current_block
    /\ rawTopic' = rawTopic \o PublishedNotes(settings.chain_id, HandledLogs(r.done),
                                                Len(rawTopic))
    /\ lastLoop' = <<LoopRecord(rpcUp, w, called, current_block, r)>>
    /\ now' = now + (IF r.raised THEN 2 ELSE 1) * settings.poll_interval_seconds

\* `if self.web3 is not None and (pair_addresses or stabilizer_addresses)`
PollsChain(connected, w) ==
    connected /\ (w.pair_addresses # <<>> \/ w.stabilizer_addresses # <<>>)

IdxLoopWith(w, failAt) ==
    IF PollsChain(web3, w)
    THEN IdxLoopDone(w, TRUE,
                     PollChainOnce(current_block, head, rpcUp, settings.confirmation_depth,
                                   w.pair_addresses, w.stabilizer_addresses, failAt))
    ELSE IdxLoopDone(w, FALSE, PollReturn(current_block, FALSE, <<>>, <<>>, <<>>, <<>>))

\* One iteration of `while True` in run().
IdxLoop ==
    /\ ipc = "loop"
    /\ now < Epoch + MaxSeconds
    /\ \E failAt \in PollFailPoints :
         IdxLoopWith(RefreshRegistryWatchlists(
                         settings,
                         Watchlists(pair_addresses, stabilizer_addresses,
                                    last_registry_refresh_at, pair_meta_cache),
                         now, registryFile),
                     failAt)
    /\ UNCHANGED <<ipc, settings, web3>>
    /\ UNCHANGED <<registryFile, head, rpcUp>>
    /\ UNCHANGED <<validTopic, ledgerVars, rowsVars, validatorLocalVars, validateVars>>
    /\ UNCHANGED <<quoteVars, extVars>>

\* After ChainIndexer(settings): the settings, the watchlists of _settings_from_env
\* and current_block = start_block.
InitIndexer ==
    /\ now = Epoch
    /\ head = 0
    /\ rpcUp \in BOOLEAN
    /\ registryFile \in
           {EmptyRegistry,
            [version |-> 1,
             chains |-> <<RegistryChain(<<"0xpair", "bad">>, <<"0xstab">>, <<>>)>>]}
    /\ settings \in IndexerSettings
    /\ ipc = "start"
    /\ web3 = FALSE
    /\ current_block = settings.start_block
    /\ pair_addresses =
           InitialWatchlist(settings.pair_addresses_overridden, settings.env_pair_addresses,
               IF LoadChainFromRegistry(registryFile, settings.chain_key) = <<>> THEN <<>>
               ELSE LoadChainFromRegistry(registryFile, settings.chain_key)[1].pair_addresses)
    /\ stabilizer_addresses =
           InitialWatchlist(settings.stabilizer_addresses_overridden,
               settings.env_stabilizer_addresses,
               IF LoadChainFromRegistry(registryFile, settings.chain_key) = <<>> THEN <<>>
               ELSE LoadChainFromRegistry(registryFile, settings.chain_key)[1].stabilizer_addresses)
    /\ last_registry_refresh_at = 0
    /\ pair_meta_cache = {}
    /\ registrySeen = <<registryFile.version>>
    /\ lastLoop = <<>>
    /\ QuoteIdle
    /\ ValidatorIdle
    /\ LedgerInit
    /\ RowsIdle
    /\ ValidateIdle
    /\ ExtIdle

NextIndexer ==
    \/ ChainAdvance
    \/ RpcChange
    \/ \E c \in IndexerRegistryChains : RegistryWrite(c)
    \/ IdxStart
    \/ IdxLoop

SpecIndexer == InitIndexer /\ [][NextIndexer]_vars

(***************************************************************************)
(* Indexer: properties.                                                    *)
(***************************************************************************)
\* The step is an iteration of run()'s loop.
IsLoopStep == now' # now

\* The logs of the range [from, to] that the chain holds for the watched pair
\* addresses and the watched stabilizer addresses after the step.
WatchedLogsOfRange(from_block, to_block) ==
    {l \in ChainLogs :
        /\ from_block <= l.blockNumber /\ l.blockNumber <= to_block
        /\ l.blockNumber <= head
        /\ \/ l.event \in PairEvents
              /\ \E i \in 1..Len(pair_addresses') : pair_addresses'[i] = l.address
           \/ l.event \in StabilizerEvents
              /\ \E i \in 1..Len(stabilizer_addresses') : stabilizer_addresses'[i] = l.address}

\* The notes the step appends to the raw topic.
StepNotes == [k \in 1..(Len(rawTopic') - Len(rawTopic)) |-> rawTopic'[Len(rawTopic) + k].note]

\* The step is the end of a _poll_chain_once call that queried a range and in which
\* every log of the range was fetched and published.
CompletePoll ==
    /\ IsLoopStep
    /\ lastLoop'[1].called
    /\ ~lastLoop'[1].raised
    /\ lastLoop'[1].range # <<>>
    /\ {<<StepNotes[k].block_number, StepNotes[k].log_index>> : k \in 1..Len(StepNotes)}
           = {<<l.blockNumber, l.logIndex>> :
                 l \in WatchedLogsOfRange(lastLoop'[1].range[1], lastLoop'[1].range[2])}

\* A poll that raised is followed by a poll from the same block.
SameStartAfterFailure ==
    (/\ IsLoopStep
     /\ lastLoop # <<>>
     /\ lastLoop[1].raised
     /\ lastLoop[1].range # <<>>
     /\ lastLoop'[1].range # <<>>) => lastLoop'[1].range[1] = lastLoop[1].range[1]

NeverDecreases ==
    (current_block # <<>> /\ current_block' # <<>>) => current_block'[1] >= current_block[1]

\* C12 as stated: current_block never decreases; it changes only at the end of a
\* _poll_chain_once call in which every log of the range was fetched and published,
\* and then becomes to + 1; if fetching or handling raises, current_block keeps its
\* value and the next poll starts from the same block.
C12_CursorChangesOnlyAfterCompletePoll ==
    [][/\ NeverDecreases
       /\ current_block' # current_block =>
              (CompletePoll /\ current_block' = <<lastLoop'[1].range[2] + 1>>)
       /\ (IsLoopStep /\ lastLoop'[1].raised) => current_block' = current_block
       /\ SameStartAfterFailure]_vars

\* C12 amended: as C12, except that with no start block configured the first
\* _poll_chain_once that finds latest >= 0 sets current_block to latest before it
\* queries the range, and this value stays when that poll raises.
C12_CursorSetOnceThenAfterCompletePoll ==
    [][/\ NeverDecreases
       /\ current_block' # current_block =>
              \/ CompletePoll /\ current_block' = <<lastLoop'[1].range[2] + 1>>
              \/ /\ current_block = <<>>
                 /\ IsLoopStep
                 /\ lastLoop'[1].raised
                 /\ lastLoop'[1].range # <<>>
                 /\ current_block' = lastLoop'[1].latest
                 /\ current_block' = <<lastLoop'[1].range[1]>>
       /\ (IsLoopStep /\ lastLoop'[1].raised /\ current_block # <<>>) =>
              current_block' = current_block
       /\ SameStartAfterFailure]_vars

\* A poll raised after it published a part of its range, and the next poll took the
\* same range to its end.
C12_Witness ==
    /\ lastLoop # <<>>
    /\ lastLoop[1].called
    /\ ~lastLoop[1].raised
    /\ lastLoop[1].range = <<0, 3>>
    /\ current_block = <<4>>
    /\ Len(rawTopic) > Len(HandledLogs(lastLoop[1].done))
    /\ Len(HandledLogs(lastLoop[1].done)) = 4

\* The step is a _poll_chain_once call that read the head block.
PollReadHead == IsLoopStep /\ lastLoop'[1].called /\ lastLoop'[1].latest # <<>>

\* The poll of the step did nothing: no range, no note, the same current_block.
PollDidNothing ==
    /\ lastLoop'[1].range = <<>>
    /\ lastLoop'[1].work = <<>>
    /\ StepNotes = <<>>
    /\ current_block' = current_block

\* The range the poll of the step queried is [from, to] with from = current_block
\* (latest when there is none) and to = min(latest, from + 100).
PollRangeAsComputed ==
    /\ lastLoop'[1].range[1] =
           (IF current_block = <<>> THEN lastLoop'[1].latest[1] ELSE current_block[1])
    /\ lastLoop'[1].range[2] = Min(lastLoop'[1].latest[1], lastLoop'[1].range[1] + 100)
    /\ lastLoop'[1].range[2] <= head - settings.confirmation_depth
    /\ lastLoop'[1].range[2] - lastLoop'[1].range[1] + 1 <= 101
    /\ \A k \in 1..Len(StepNotes) :
           /\ lastLoop'[1].range[1] <= StepNotes[k].block_number
           /\ StepNotes[k].block_number <= lastLoop'[1].range[2]

\* C13: each poll computes latest = head - confirmation_depth, does nothing when
\* latest < 0 or current_block > latest, and otherwise queries from = current_block
\* to to = min(latest, from + 100): no block above head - confirmation_depth is
\* queried, a range spans at most 101 blocks, and with no start block the first
\* range starts at latest.
C13_RangeWithinConfirmedWindow ==
    [][PollReadHead =>
          /\ lastLoop'[1].latest = <<head - settings.confirmation_depth>>
          /\ IF \/ lastLoop'[1].latest[1] < 0
                \/ current_block # <<>> /\ current_block[1] > lastLoop'[1].latest[1]
             THEN PollDidNothing
             ELSE lastLoop'[1].range # <<>> /\ PollRangeAsComputed]_vars

\* With the head at block 250 and no confirmation depth, the poll from block 0
\* stopped at block 100.
C13_Witness ==
    /\ lastLoop # <<>>
    /\ lastLoop[1].called
    /\ lastLoop[1].latest = <<250>>
    /\ lastLoop[1].range = <<0, 100>>
    /\ current_block = <<101>>

\* (block_number, log_index) of note a is below that of note b.
NoteBefore(a, b) ==
    \/ a.block_number < b.block_number
    \/ a.block_number = b.block_number /\ a.log_index < b.log_index

\* C14: within one polled block range the raw notes are published in ascending
\* (block_number, log_index) order of their logs, for all logs of the range taken
\* together (pair events and stabilizer events).
C14_RangePublishedInLogOrder ==
    [][IsLoopStep =>
          \A i, j \in 1..Len(StepNotes) : i < j => NoteBefore(StepNotes[i], StepNotes[j])]_vars

\* The notes of one source (the pair events, or the stabilizer events) of one
\* polled range are in ascending (block_number, log_index) order.
C14_EachSourceInLogOrder ==
    [][IsLoopStep =>
          \A i, j \in 1..Len(StepNotes) :
              (/\ i < j
               /\ (StepNotes[i].action \in {"MUSD_MINT", "MUSD_BURN"})
                      = (StepNotes[j].action \in {"MUSD_MINT", "MUSD_BURN"}))
                  => NoteBefore(StepNotes[i], StepNotes[j])]_vars

\* The event a raw note was published for.
EventOfNote(note) == <<note.chain_id, note.tx_hash, note.log_index, note.action>>

\* dex_transactions after the Ledger Writer persisted the notes: the Validator
\* copies note_id into the valid note, and _persist inserts it ON CONFLICT (note_id)
\* DO NOTHING.
RECURSIVE PersistAll(_, _)
PersistAll(table, messages) ==
    IF messages = <<>> THEN table
    ELSE PersistAll(InsertTransaction(table, Head(messages).note).table, Tail(messages))

\* The notes at the end of the raw topic are those of the logs the last iteration
\* handled, one note per log, in the order handled.
OneNotePerHandledLog ==
    lastLoop # <<>> =>
        /\ Len(HandledLogs(lastLoop[1].done)) <= Len(rawTopic)
        /\ \A k \in 1..Len(HandledLogs(lastLoop[1].done)) :
               EventOfNote(rawTopic[Len(rawTopic) - Len(HandledLogs(lastLoop[1].done)) + k].note)
                   = <<settings.chain_id,
                       HandledLogs(lastLoop[1].done)[k].transactionHash,
                       HandledLogs(lastLoop[1].done)[k].logIndex,
                       ActionOfEvent(HandledLogs(lastLoop[1].done)[k].event)>>

\* C15: one raw note is published per decoded event and its note_id is a function
\* of (chain_id, tx_hash, log_index, action) only: a log published a second time
\* after a failure carries the same note_id with a new correlation_id, so the
\* ledger holds one transaction record per event whatever was replayed.
C15_ReplayKeepsNoteId ==
    /\ OneNotePerHandledLog
    /\ \A i, j \in 1..Len(rawTopic) :
           /\ (EventOfNote(rawTopic[i].note) = EventOfNote(rawTopic[j].note))
                  = (rawTopic[i].note.note_id = rawTopic[j].note.note_id)
           /\ i # j => rawTopic[i].note.correlation_id # rawTopic[j].note.correlation_id
    /\ Len(PersistAll(<<>>, rawTopic))
           = Cardinality({EventOfNote(rawTopic[i].note) : i \in 1..Len(rawTopic)})
    /\ \A a, b \in 1..Len(PersistAll(<<>>, rawTopic)) :
           a # b => EventOfNote(PersistAll(<<>>, rawTopic)[a])
                        # EventOfNote(PersistAll(<<>>, rawTopic)[b])

\* A poll raised after it published the first log of its range, and the next poll
\* published that log again.
C15_Witness ==
    /\ Len(rawTopic) >= 3
    /\ rawTopic[1].note.note_id = rawTopic[2].note.note_id
    /\ rawTopic[1].note.correlation_id # rawTopic[2].note.correlation_id
    /\ Len(PersistAll(<<>>, rawTopic)) < Len(rawTopic)

\* C16: in every iteration of the loop in which the RPC endpoint is reachable and
\* at least one pair or stabilizer address is watched, _poll_chain_once is called,
\* whatever the reachability of the endpoint was at start-up.
C16_PollsWheneverReachable ==
    (lastLoop # <<>> /\ lastLoop[1].rpcUp /\ lastLoop[1].watched) => lastLoop[1].called

\* What run() does: the poll is called in the iterations with an address watched,
\* if and only if the endpoint was reachable when run() started.
C16_PollsIffReachableAtStart ==
    (lastLoop # <<>> /\ lastLoop[1].watched) => (lastLoop[1].called = web3)

\* C18: the Indexer's and the Quote Engine's private copies of the registry
\* snapshot are refreshed on TTL expiry and also when the version of the snapshot on
\* disk is observed to have changed before the TTL has expired: an iteration of the
\* Indexer that takes its watchlists from the registry and finds another version on
\* disk than the one it last loaded loads the snapshot again.
C18_RefreshesOnVersionChange ==
    [][(/\ IsLoopStep
        /\ ~(settings.pair_addresses_overridden /\ settings.stabilizer_addresses_overridden)
        /\ registrySeen # <<registryFile.version>>)
           => registrySeen' = <<registryFile.version>>]_vars

(***************************************************************************)
(* Quote Engine: the canonical pair of a symbol group.                     *)
(*                                                                         *)
(* Pool addresses and symbols are plain strings; lower(), upper(), strip() *)
(* and the order of two strings are tables over the strings of the model.  *)
(* A reserve is <<>> when Decimal() rejects its text and <<n>> when the    *)
(* text denotes n; the products of the model are exact, as those of        *)
(* Decimal are up to 28 digits.                                            *)
(***************************************************************************)
\* str(value or '').strip().lower()
NormalizePoolAddress(value) ==
    CASE value = "0xAA" -> "0xaa"
      [] value = "0xBB" -> "0xbb"
      [] value = " 0xcc" -> "0xcc"
      [] OTHER -> value

\* re.fullmatch(r'0x[a-f0-9]{40}', normalized): the well-formed addresses.
IsEvmPoolAddress(value) == NormalizePoolAddress(value) \in {"0xaa", "0xbb", "0xcc"}

\* int(chain_raw.strip()): <<>> stands for ValueError.
ChunkChainId(chain_raw) ==
    CASE chain_raw = "31337" -> <<31337>>
      [] chain_raw = " 97" -> <<97>>
      [] chain_raw = "0" -> <<0>>
      [] OTHER -> <<>>

\* A chunk of CANONICAL_POOL_ALLOWLIST: 0xADDR (chain_raw = <<>>) or CHAIN:0xADDR.
AllowlistChunk(chain_raw, addr_raw) == [chain_raw |-> chain_raw, addr_raw |-> addr_raw]

\* The chunks of the chain-scoped form that _parse_canonical_pool_allowlist keeps.
ChainScopedChunks(chunks) ==
    {i \in 1..Len(chunks) :
        /\ chunks[i].chain_raw # <<>>
        /\ IsEvmPoolAddress(NormalizePoolAddress(chunks[i].addr_raw))
        /\ ChunkChainId(chunks[i].chain_raw[1]) # <<>>
        /\ ChunkChainId(chunks[i].chain_raw[1])[1] > 0}

\* _parse_canonical_pool_allowlist: (global_allowlist, chain_allowlist).
ParseCanonicalPoolAllowlist(chunks) ==
    [global_allowlist |->
         {NormalizePoolAddress(chunks[i].addr_raw) :
             i \in {j \in 1..Len(chunks) :
                       /\ chunks[j].chain_raw = <<>>
                       /\ IsEvmPoolAddress(NormalizePoolAddress(chunks[j].addr_raw))}},
     chain_allowlist |->
         {<<ChunkChainId(chunks[i].chain_raw[1])[1], NormalizePoolAddress(chunks[i].addr_raw)>> :
             i \in ChainScopedChunks(chunks)}]

\* str.strip() on a symbol.
StripSymbol(symbol) ==
    CASE symbol = " " -> ""
      [] symbol = " WETH" -> "WETH"
      [] OTHER -> symbol

\* str.upper() on a symbol.
UpperSymbol(symbol) ==
    CASE symbol = "mUSD" -> "MUSD"
      [] symbol = "weth" -> "WETH"
      [] OTHER -> symbol

\* The place of an upper-cased symbol in the order of str.
SymbolOrder(symbol) ==
    CASE symbol = "" -> 0
      [] symbol = "MODX" -> 1
      [] symbol = "MUSD" -> 2
      [] symbol = "USDC" -> 3
      [] symbol = "WBTC" -> 4
      [] OTHER -> 5

\* The place of a normalized pool address in the order of str.
AddressOrder(address) ==
    CASE address = "" -> 0
      [] address = "0xaa" -> 1
      [] address = "0xbb" -> 2
      [] address = "0xcc" -> 3
      [] OTHER -> 4

\* _pair_symbol_key
PairSymbolKey(token0_symbol, token1_symbol) ==
    IF SymbolOrder(UpperSymbol(StripSymbol(token0_symbol)))
           <= SymbolOrder(UpperSymbol(StripSymbol(token1_symbol)))
    THEN <<UpperSymbol(StripSymbol(token0_symbol)), UpperSymbol(StripSymbol(token1_symbol))>>
    ELSE <<UpperSymbol(StripSymbol(token1_symbol)), UpperSymbol(StripSymbol(token0_symbol))>>

\* PairState
PairState(pair_address, token0_symbol, token1_symbol, reserve0, reserve1) ==
    [pair_address |-> pair_address, token0_symbol |-> token0_symbol,
     token1_symbol |-> token1_symbol, reserve0 |-> reserve0, reserve1 |-> reserve1]

\* _pair_liquidity_score
PairLiquidityScore(pair) ==
    IF pair.reserve0 <= 0 \/ pair.reserve1 <= 0 THEN 0 ELSE pair.reserve0 * pair.reserve1

\* An entry of a chain's `pairs` in the registry snapshot.
RegistryPair(pair_address, token0_symbol, token1_symbol, reserve0_decimal, reserve1_decimal) ==
    [pair_address |-> pair_address, token0_symbol |-> token0_symbol,
     token1_symbol |-> token1_symbol, reserve0_decimal |-> reserve0_decimal,
     reserve1_decimal |-> reserve1_decimal]

\* _refresh skips the pair: a symbol is blank, a reserve is no number or not positive.
SkipsPair(pair) ==
    \/ StripSymbol(pair.token0_symbol) = ""
    \/ StripSymbol(pair.token1_symbol) = ""
    \/ pair.reserve0_decimal = <<>>
    \/ pair.reserve1_decimal = <<>>
    \/ pair.reserve0_decimal[1] <= 0
    \/ pair.reserve1_decimal[1] <= 0

\* parsed_pairs of _refresh.
RECURSIVE ParsedPairs(_)
ParsedPairs(pairs) ==
    IF pairs = <<>> THEN <<>>
    ELSE (IF SkipsPair(Head(pairs)) THEN <<>>
          ELSE <<PairState(Head(pairs).pair_address, StripSymbol(Head(pairs).token0_symbol),
                           StripSymbol(Head(pairs).token1_symbol),
                           Head(pairs).reserve0_decimal[1], Head(pairs).reserve1_decimal[1])>>)
             \o ParsedPairs(Tail(pairs))

\* The keys of `grouped`, in the order the dict got them.
RECURSIVE GroupKeys(_, _)
GroupKeys(pairs, seen) ==
    IF pairs = <<>> THEN <<>>
    ELSE IF \/ PairSymbolKey(Head(pairs).token0_symbol, Head(pairs).token1_symbol)[1] = ""
            \/ PairSymbolKey(Head(pairs).token0_symbol, Head(pairs).token1_symbol)[2] = ""
            \/ PairSymbolKey(Head(pairs).token0_symbol, Head(pairs).token1_symbol) \in seen
    THEN GroupKeys(Tail(pairs), seen)
    ELSE <<PairSymbolKey(Head(pairs).token0_symbol, Head(pairs).token1_symbol)>>
             \o GroupKeys(Tail(pairs),
                          seen \cup {PairSymbolKey(Head(pairs).token0_symbol,
                                                   Head(pairs).token1_symbol)})

\* grouped[symbol_key]
GroupOf(pairs, symbol_key) ==
    SelectSeq(pairs, LAMBDA pair : PairSymbolKey(pair.token0_symbol, pair.token1_symbol) = symbol_key)

\* The pair is on the global allowlist or on the chain's.
IsAllowlisted(chain_id, pair, allowlist) ==
    \/ NormalizePoolAddress(pair.pair_address) \in allowlist.global_allowlist
    \/ <<chain_id, NormalizePoolAddress(pair.pair_address)>> \in allowlist.chain_allowlist

\* allowlisted_group
AllowlistedGroup(chain_id, group, allowlist) ==
    SelectSeq(group, LAMBDA pair : IsAllowlisted(chain_id, pair, allowlist))

\* candidates with the allowlist left out of the choice.
CandidatesWholeGroup(group, allowlisted_group) == group

\* candidates = allowlisted_group if allowlisted_group else group
Candidates(group, allowlisted_group) ==
    IF allowlisted_group # <<>> THEN allowlisted_group ELSE group

\* The sort key of a is above that of b: (score, normalized address).
KeyAbove(a, b) ==
    \/ PairLiquidityScore(a) > PairLiquidityScore(b)
    \/ /\ PairLiquidityScore(a) = PairLiquidityScore(b)
       /\ AddressOrder(NormalizePoolAddress(a.pair_address))
              > AddressOrder(NormalizePoolAddress(b.pair_address))

\* candidates[0] after candidates.sort(key=..., reverse=True): the sort is stable,
\* so of the candidates with the highest key the first one.
TopCandidate(candidates) ==
    candidates[CHOOSE i \in 1..Len(candidates) :
                  /\ \A j \in 1..Len(candidates) : ~KeyAbove(candidates[j], candidates[i])
                  /\ \A j \in 1..(i - 1) : KeyAbove(candidates[i], candidates[j])]

\* `selected` of _select_canonical_pairs, over the keys of `grouped`.
SelectedOf(chain_id, pairs, keys, allowlist) ==
    [k \in 1..Len(keys) |->
        TopCandidate(Candidates(GroupOf(pairs, keys[k]),
                                AllowlistedGroup(chain_id, GroupOf(pairs, keys[k]), allowlist)))]

\* _select_canonical_pairs(chain_id, pairs)
SelectCanonicalPairs(chain_id, pairs, allowlist_env) ==
    IF pairs = <<>> THEN <<>>
    ELSE SelectedOf(chain_id, pairs, GroupKeys(pairs, {}),
                    ParseCanonicalPoolAllowlist(allowlist_env))

\* active_pairs = canonical_pairs if canonical_pairs else parsed_pairs
ActivePairs(canonical_pairs, parsed_pairs) ==
    IF canonical_pairs # <<>> THEN canonical_pairs ELSE parsed_pairs

\* The pairs _refresh keeps for a chain of the payload.
RefreshPairs(chain, allowlist_env) ==
    ActivePairs(SelectCanonicalPairs(chain.chain_id, ParsedPairs(chain.pairs), allowlist_env),
                ParsedPairs(chain.pairs))

\* Pairs per chain of the registry at most.
MaxPairs == 3

\* The pools of the registry: pools of mUSD/WETH under several spellings, with and
\* without a well-formed address, with reserves that are positive, zero or no
\* number, and a pool of another group.
RegistryPairs ==
    {RegistryPair("0xAA", "mUSD", "WETH", <<2>>, <<3>>),
     RegistryPair("0xbb", " WETH", "MUSD", <<3>>, <<3>>),
     RegistryPair("0xBB", "weth", "mUSD", <<2>>, <<3>>),
     RegistryPair("pool-x", "mUSD", "weth", <<1>>, <<1>>),
     RegistryPair("", "MUSD", "WETH", <<3>>, <<3>>),
     RegistryPair(" 0xcc", "mUSD", "USDC", <<2>>, <<2>>),
     RegistryPair("0xaa", "mUSD", "WETH", <<0>>, <<5>>),
     RegistryPair("0xbb", " ", "WETH", <<4>>, <<4>>),
     RegistryPair("0xbb", "mUSD", "WETH", <<>>, <<4>>)}

\* The values of CANONICAL_POOL_ALLOWLIST.
AllowlistEnvs ==
    {<<>>,
     <<AllowlistChunk(<<>>, "0xAA")>>,
     <<AllowlistChunk(<<"31337">>, "0xaa"), AllowlistChunk(<<>>, "pool-x")>>,
     <<AllowlistChunk(<<" 97">>, "0xaa"), AllowlistChunk(<<"x">>, "0xbb")>>,
     <<AllowlistChunk(<<"0">>, "0xbb"), AllowlistChunk(<<>>, " 0xcc")>>}

\* The pair lists of a chain.
PairLists == UNION {[1..n -> RegistryPairs] : n \in 0..MaxPairs}

\* _refresh reaches the pairs of the chain.
SelectCanonical ==
    /\ canonChain # <<>>
    /\ canonPairs = <<>>
    /\ canonPairs' = <<RefreshPairs(canonChain[1], canonical_pool_allowlist)>>
    /\ UNCHANGED <<canonical_pool_allowlist, cache_expires_at, cache_chains, cacheBuiltFrom,
                   lastGet, canonChain, apiVars>>
    /\ UNCHANGED <<envVars, indexerVars, extVars>>
    /\ UNCHANGED <<validTopic, ledgerVars, rowsVars, validatorVars, validateVars>>

InitCanonical ==
    /\ canonical_pool_allowlist \in AllowlistEnvs
    /\ canonChain \in {<<RegistryChain(<<>>, <<>>, pairs)>> : pairs \in PairLists}
    /\ canonPairs = <<>>
    /\ QuoteCacheIdle
    /\ ApiIdle
    /\ EnvIdle
    /\ IndexerIdle
    /\ ValidatorIdle
    /\ LedgerInit
    /\ RowsIdle
    /\ ValidateIdle
    /\ ExtIdle

NextCanonical == SelectCanonical

SpecCanonical == InitCanonical /\ [][NextCanonical]_vars

(***************************************************************************)
(* Quote Engine: properties of the pair selection.                         *)
(***************************************************************************)
\* The unordered pair of the upper-cased symbols of a pool.
SymbolPairOf(pool) ==
    {UpperSymbol(StripSymbol(pool.token0_symbol)), UpperSymbol(StripSymbol(pool.token1_symbol))}

\* The pools of the chain that have both symbols and positive reserves.
LiquidPools ==
    {PairState(q.pair_address, StripSymbol(q.token0_symbol), StripSymbol(q.token1_symbol),
               q.reserve0_decimal[1], q.reserve1_decimal[1]) :
        q \in {canonChain[1].pairs[i] :
                  i \in {j \in 1..Len(canonChain[1].pairs) :
                            /\ StripSymbol(canonChain[1].pairs[j].token0_symbol) # ""
                            /\ StripSymbol(canonChain[1].pairs[j].token1_symbol) # ""
                            /\ canonChain[1].pairs[j].reserve0_decimal # <<>>
                            /\ canonChain[1].pairs[j].reserve1_decimal # <<>>
                            /\ canonChain[1].pairs[j].reserve0_decimal[1] > 0
                            /\ canonChain[1].pairs[j].reserve1_decimal[1] > 0}}}

\* The pool is on the allowlist of the environment, globally or for the chain.
OnAllowlist(pool) ==
    \E i \in 1..Len(canonical_pool_allowlist) :
        /\ IsEvmPoolAddress(canonical_pool_allowlist[i].addr_raw)
        /\ NormalizePoolAddress(canonical_pool_allowlist[i].addr_raw)
               = NormalizePoolAddress(pool.pair_address)
        /\ \/ canonical_pool_allowlist[i].chain_raw = <<>>
           \/ /\ canonical_pool_allowlist[i].chain_raw # <<>>
              /\ ChunkChainId(canonical_pool_allowlist[i].chain_raw[1])
                     = <<canonChain[1].chain_id>>

\* The liquid pools of the symbol group of a pool.
GroupPools(pool) == {q \in LiquidPools : SymbolPairOf(q) = SymbolPairOf(pool)}

\* The pools the selection chooses from in the group of a pool: the allowlisted
\* ones if there is one, the whole group otherwise.
GroupCandidates(pool) ==
    IF \E q \in GroupPools(pool) : OnAllowlist(q)
    THEN {q \in GroupPools(pool) : OnAllowlist(q)}
    ELSE GroupPools(pool)

\* C19: after a refresh the pair list of a chain holds at most one pool per
\* unordered upper-cased symbol pair and every kept pool has reserve0 > 0 and
\* reserve1 > 0; if a pool of the group is on the global or the per-chain
\* allowlist the kept pool is an allowlisted one, even when a pool off the list
\* has larger reserves; among the candidates the pool with the largest
\* reserve0 * reserve1 is kept.
C19_OneCanonicalPoolPerGroup ==
    canonPairs # <<>> =>
        \A i \in 1..Len(canonPairs[1]) :
            /\ canonPairs[1][i] \in LiquidPools
            /\ canonPairs[1][i].reserve0 > 0
            /\ canonPairs[1][i].reserve1 > 0
            /\ \A j \in 1..Len(canonPairs[1]) :
                   j # i => SymbolPairOf(canonPairs[1][j]) # SymbolPairOf(canonPairs[1][i])
            /\ canonPairs[1][i] \in GroupCandidates(canonPairs[1][i])
            /\ \A q \in GroupCandidates(canonPairs[1][i]) :
                   q.reserve0 * q.reserve1
                       <= canonPairs[1][i].reserve0 * canonPairs[1][i].reserve1

\* The allowlisted pool 0xAA (reserves 2 and 3) was kept for mUSD/WETH although the
\* pool 0xbb of the group, which is off the list, has reserves 3 and 3.
C19_Witness ==
    /\ canonPairs # <<>>
    /\ Len(canonChain[1].pairs) = 3
    /\ Len(canonPairs[1]) = 2
    /\ \E i \in 1..2 :
           /\ canonPairs[1][i].pair_address = "0xAA"
           /\ OnAllowlist(canonPairs[1][i])
           /\ \E q \in GroupPools(canonPairs[1][i]) :
                  /\ ~OnAllowlist(q)
                  /\ q.reserve0 * q.reserve1
                         > canonPairs[1][i].reserve0 * canonPairs[1][i].reserve1

\* C20: only the top pool of each symbol group is retained, except that a group
\* in which no pool has a valid address (0x followed by 40 hex digits) keeps all
\* of its pools.
C20_GroupWithoutValidAddressKeepsAll ==
    canonPairs # <<>> =>
        \A p \in LiquidPools :
            IF \E q \in GroupPools(p) : IsEvmPoolAddress(q.pair_address)
            THEN Cardinality({i \in 1..Len(canonPairs[1]) :
                                 SymbolPairOf(canonPairs[1][i]) = SymbolPairOf(p)}) = 1
            ELSE \E i \in 1..Len(canonPairs[1]) : canonPairs[1][i] = p

\* What the selection does: one pool is retained for every symbol group that has
\* a liquid pool, with or without a valid address in the group.
C20_EveryGroupKeepsOne ==
    canonPairs # <<>> =>
        \A p \in LiquidPools :
            Cardinality({i \in 1..Len(canonPairs[1]) :
                            SymbolPairOf(canonPairs[1][i]) = SymbolPairOf(p)}) = 1

(***************************************************************************)
(* API: the chain registry loader.                                         *)
(*                                                                         *)
(* The file on disk is a snapshot [version, chains], or it is not one:     *)
(* [unreadable |-> kind] for a missing file, bytes that are not UTF-8,     *)
(* text that is not JSON and JSON that is not an object.                   *)
(***************************************************************************)
\* The fields of the dataclass Settings.
SettingsFields ==
    {"app_name", "environment", "cors_origins", "postgres_dsn", "kafka_bootstrap_servers",
     "clickhouse_host", "clickhouse_port", "clickhouse_username", "clickhouse_password",
     "clickhouse_database", "dex_tx_raw_topic", "compliance_enforcement_enabled",
     "compliance_blocked_countries", "compliance_sanctions_blocked_wallets"}

\* settings.<name> evaluates; otherwise the access raises AttributeError.
HasSetting(name) == name \in SettingsFields

\* How a call ends: it returns a value or raises an error.
CallReturned(value) == [raised |-> FALSE, error |-> "", value |-> <<value>>]

CallRaised(error) == [raised |-> TRUE, error |-> error, value |-> <<>>]

UnreadableKinds == {"missing", "not-utf8", "not-json", "not-object"}

UnreadableFile(kind) == [unreadable |-> kind]

IsSnapshotFile(file) == "unreadable" \notin DOMAIN file

\* _load_chain_registry_cached from `if not path.exists()` on.
ReadRegistryFile(file) ==
    IF IsSnapshotFile(file) THEN CallReturned(file)
    ELSE IF file.unreadable = "not-utf8" THEN CallRaised("UnicodeDecodeError")
    ELSE CallReturned(EmptyRegistry)

\* The body of _load_chain_registry_cached: the path is read from the settings
\* before the file is looked at.
LoadChainRegistryUncached(file) ==
    IF ~HasSetting("chain_registry_path") THEN CallRaised("AttributeError")
    ELSE ReadRegistryFile(file)

\* _load_chain_registry_cached() under lru_cache(maxsize=1): `cache` is <<>> or
\* <<payload>>.
LoadChainRegistryCached(cache, file) ==
    IF cache # <<>> THEN CallReturned(cache[1]) ELSE LoadChainRegistryUncached(file)

\* What lru_cache holds after the call: a call that raises stores nothing.
CacheAfterLoad(cache, file) ==
    IF LoadChainRegistryCached(cache, file).raised THEN cache
    ELSE <<LoadChainRegistryCached(cache, file).value[1]>>

\* What a load_chain_registry call leaves in the log: the file and the cache it
\* found and how it ended.  The copy it returns is equal to the cached payload.
LoadRecord(file, cache, result) == [file |-> file, cache |-> cache, result |-> result]

\* load_chain_registry()
LoadChainRegistry ==
    /\ lastLoad' = <<LoadRecord(registryFile, registryCache,
                                LoadChainRegistryCached(registryCache, registryFile))>>
    /\ registryCache' = CacheAfterLoad(registryCache, registryFile)
    /\ UNCHANGED lastTokens
    /\ UNCHANGED <<buildQuoteVars, feesVars, amountVars, minOutVars, complianceVars>>
    /\ UNCHANGED <<canonical_pool_allowlist, cache_expires_at, cache_chains, cacheBuiltFrom,
                   lastGet, canonChain, canonPairs>>
    /\ UNCHANGED <<envVars, indexerVars, extVars>>
    /\ UNCHANGED <<validTopic, ledgerVars, rowsVars, validatorVars, validateVars>>

\* load_chain_registry.cache_clear()
CacheClear ==
    /\ registryCache' = <<>>
    /\ UNCHANGED <<lastLoad, lastTokens>>
    /\ UNCHANGED <<buildQuoteVars, feesVars, amountVars, minOutVars, complianceVars>>
    /\ UNCHANGED <<canonical_pool_allowlist, cache_expires_at, cache_chains, cacheBuiltFrom,
                   lastGet, canonChain, canonPairs>>
    /\ UNCHANGED <<envVars, indexerVars, extVars>>
    /\ UNCHANGED <<validTopic, ledgerVars, rowsVars, validatorVars, validateVars>>

\* The file is replaced, removed or damaged.
RegistryFileChange(file) ==
    /\ registryFile' = file
    /\ UNCHANGED <<now, head, rpcUp>>
    /\ UNCHANGED <<indexerVars, quoteVars, extVars>>
    /\ UNCHANGED <<validTopic, ledgerVars, rowsVars, validatorVars, validateVars>>

(***************************************************************************)
(* API: tokens_payload.                                                    *)
(*                                                                         *)
(* Token addresses: "0xE1" and "0xE2" stand for 0x and 40 hex digits,      *)
(* "0xHASH" for 0x and 64 hex digits; the others are written out.          *)
(***************************************************************************)
\* An entry of a chain's `tokens` in the registry snapshot.
RegistryToken(symbol, address, source) ==
    [symbol |-> symbol, address |-> address, source |-> source]

\* str.strip() on a token address.
StripAddress(address) == IF address = " 0xE1" THEN "0xE1" ELSE address

\* len(address), of a stripped address.
AddressLen(address) ==
    CASE address \in {"0xE1", "0xE2", "0xB6322eD8561604Ca2A1b9c17e4d02B957EB242fe"} -> 42
      [] address = "0xHASH" -> 66
      [] address = "bridge-usdc" -> 11
      [] OTHER -> 0

\* _is_evm_address
IsEvmAddress(value) ==
    value \in {"0xE1", "0xE2", "0xB6322eD8561604Ca2A1b9c17e4d02B957EB242fe"}

\* The score _token_priority gives to str(source).strip().lower().
SourceScore(source) ==
    CASE source \in {"contracts.weth", " Contracts"} -> 3
      [] source = "deployed" -> 2
      [] source = "pair-discovery" -> 1
      [] source = "defaults" -> -1
      [] OTHER -> 0

\* _token_priority: <<score, len(address)>>
TokenPriority(token) ==
    <<(IF IsEvmAddress(StripAddress(token.address)) THEN 4 ELSE 0)
          + SourceScore(token.source)
          - (IF StripAddress(token.address) = "bridge-usdc" THEN 2 ELSE 0),
      AddressLen(StripAddress(token.address))>>

\* a > b on the tuples of _token_priority
PriorityGreater(a, b) == a[1] > b[1] \/ (a[1] = b[1] /\ a[2] > b[2])

\* _normalize_token, but its decimals
NormalizeToken(token) ==
    [token EXCEPT !.symbol = StripSymbol(@), !.address = StripAddress(@)]

\* The loop of _dedupe_tokens over one token.
DedupeToken(selected, token) ==
    IF StripSymbol(token.symbol) = "" THEN selected
    ELSE IF UpperSymbol(StripSymbol(token.symbol)) \notin DOMAIN selected
    THEN (UpperSymbol(StripSymbol(token.symbol)) :> token) @@ selected
    ELSE IF PriorityGreater(TokenPriority(token),
                            TokenPriority(selected[UpperSymbol(StripSymbol(token.symbol))]))
    THEN [selected EXCEPT ![UpperSymbol(StripSymbol(token.symbol))] = token]
    ELSE selected

RECURSIVE DedupeSelected(_, _)
\* `selected` of _dedupe_tokens after the loop.
DedupeSelected(tokens, selected) ==
    IF tokens = <<>> THEN selected
    ELSE DedupeSelected(Tail(tokens), DedupeToken(selected, Head(tokens)))

RECURSIVE SortedSymbols(_)
\* sorted(keys)
SortedSymbols(keys) ==
    IF keys = {} THEN <<>>
    ELSE <<CHOOSE k \in keys : \A o \in keys : SymbolOrder(k) <= SymbolOrder(o)>>
             \o SortedSymbols(keys \ {CHOOSE k \in keys :
                                         \A o \in keys : SymbolOrder(k) <= SymbolOrder(o)})

\* _dedupe_tokens
DedupeTokens(tokens) ==
    [i \in 1..Len(SortedSymbols(DOMAIN DedupeSelected(tokens, <<>>))) |->
        DedupeSelected(tokens, <<>>)[SortedSymbols(DOMAIN DedupeSelected(tokens, <<>>))[i]]]

\* STATIC_CHAIN_TOKENS.get(chain_id, [])
STATIC_CHAIN_TOKENS(chain_id) ==
    IF chain_id = 97
    THEN <<RegistryToken("MODX", "0xB6322eD8561604Ca2A1b9c17e4d02B957EB242fe",
                         "static.bnb-testnet")>>
    ELSE <<>>

\* chain.get('tokens') if it is a list, else []
ChainTokens(chain) == IF "tokens" \in DOMAIN chain THEN chain.tokens ELSE <<>>

\* The chain with a `tokens` list.
WithTokens(chain, tokens) == [tokens |-> tokens] @@ chain

\* merged_tokens of tokens_payload
MergedTokens(chain) ==
    [i \in 1..Len(ChainTokens(chain)) |-> NormalizeToken(ChainTokens(chain)[i])]
        \o [i \in 1..Len(STATIC_CHAIN_TOKENS(chain.chain_id)) |->
               NormalizeToken(STATIC_CHAIN_TOKENS(chain.chain_id)[i])]

\* executable_tokens of tokens_payload
ExecutableTokens(chain) ==
    SelectSeq(DedupeTokens(MergedTokens(chain)),
              LAMBDA token : IsEvmAddress(StripAddress(token.address)))

\* The last chain of the payload with this chain_id.
LastChainWithId(chains, chain_id) ==
    chains[CHOOSE i \in 1..Len(chains) :
              /\ chains[i].chain_id = chain_id
              /\ \A j \in (i + 1)..Len(chains) : chains[j].chain_id # chain_id]

\* The least chain_id of the networks.
LeastChainId(networks) ==
    CHOOSE m \in {networks[i].chain_id : i \in 1..Len(networks)} :
        \A i \in 1..Len(networks) : m <= networks[i].chain_id

RECURSIVE SortedByChainId(_)
\* networks.sort(key=chain_id): a stable sort.
SortedByChainId(networks) ==
    IF networks = <<>> THEN <<>>
    ELSE SelectSeq(networks, LAMBDA n : n.chain_id = LeastChainId(networks))
             \o SortedByChainId(
                    SelectSeq(networks, LAMBDA n : n.chain_id # LeastChainId(networks)))

\* What tokens_payload returns for the loaded snapshot `data`; of a network, its
\* chain_id, chain_key and counts (the other fields are copies of the chain's).
TokensPayloadOf(data) ==
    [chains |->
        [id \in {data.chains[i].chain_id :
                    i \in {j \in 1..Len(data.chains) : data.chains[j].chain_id > 0}} |->
            ExecutableTokens(LastChainWithId(data.chains, id))],
     networks |->
        SortedByChainId(
            [i \in 1..Len(SelectSeq(data.chains, LAMBDA c : c.chain_id > 0)) |->
                [chain_id |-> SelectSeq(data.chains, LAMBDA c : c.chain_id > 0)[i].chain_id,
                 chain_key |-> SelectSeq(data.chains, LAMBDA c : c.chain_id > 0)[i].chain_key,
                 token_count |->
                     Len(ExecutableTokens(SelectSeq(data.chains, LAMBDA c : c.chain_id > 0)[i])),
                 pair_count |->
                     Len(SelectSeq(data.chains, LAMBDA c : c.chain_id > 0)[i].pairs)]]),
     registry_version |-> data.version]

\* tokens_payload(): it raises what load_chain_registry raises.
TokensPayloadResult(cache, file) ==
    IF LoadChainRegistryCached(cache, file).raised
    THEN LoadChainRegistryCached(cache, file)
    ELSE CallReturned(TokensPayloadOf(LoadChainRegistryCached(cache, file).value[1]))

\* tokens_payload()
TokensPayload ==
    /\ lastTokens' = <<LoadRecord(registryFile, registryCache,
                                  TokensPayloadResult(registryCache, registryFile))>>
    /\ registryCache' = CacheAfterLoad(registryCache, registryFile)
    /\ UNCHANGED lastLoad
    /\ UNCHANGED <<buildQuoteVars, feesVars, amountVars, minOutVars, complianceVars>>
    /\ UNCHANGED <<canonical_pool_allowlist, cache_expires_at, cache_chains, cacheBuiltFrom,
                   lastGet, canonChain, canonPairs>>
    /\ UNCHANGED <<envVars, indexerVars, extVars>>
    /\ UNCHANGED <<validTopic, ledgerVars, rowsVars, validatorVars, validateVars>>

\* The token lists of the snapshots.
TokenLists ==
    {<<>>,
     <<RegistryToken("WETH", "0xE1", "contracts.weth"), RegistryToken("mUSD", "0xE2", "deployed")>>,
     <<RegistryToken("weth", "0xE2", "defaults"), RegistryToken("WETH", "0xE1", "contracts.weth")>>,
     <<RegistryToken("WETH", "0xE1", "contracts.weth"), RegistryToken(" WETH", "0xE2", " Contracts")>>,
     <<RegistryToken("weth", "0xE2", "defaults"), RegistryToken("WETH", "0xHASH", "contracts.weth")>>,
     <<RegistryToken("USDC", "bridge-usdc", "contracts.weth"),
       RegistryToken("USDC", " 0xE1", "pair-discovery")>>,
     <<RegistryToken("USDC", "bridge-usdc", "deployed"), RegistryToken(" ", "0xE1", "deployed")>>}

\* The snapshots of the registry builder: one chain or two, with their tokens.
TokenSnapshots ==
    {[version |-> 1, chains |-> <<WithTokens(RegistryChain(<<>>, <<>>, <<>>), tokens)>>] :
        tokens \in TokenLists}
      \cup {[version |-> 1,
             chains |-> <<WithTokens([RegistryChain(<<>>, <<>>, <<>>)
                                         EXCEPT !.chain_key = "bnb-testnet", !.chain_id = 97],
                                     tokens),
                          WithTokens(RegistryChain(<<>>, <<>>, <<>>), <<>>)>>] :
               tokens \in TokenLists}
      \cup {[version |-> 1,
             chains |-> <<WithTokens([RegistryChain(<<>>, <<>>, <<>>)
                                         EXCEPT !.chain_key = "draft", !.chain_id = 0],
                                     tokens)>>] :
               tokens \in TokenLists}

\* The files the loader finds when it starts.
LoaderFiles ==
    {EmptyRegistry} \cup TokenSnapshots \cup {UnreadableFile(kind) : kind \in UnreadableKinds}

\* The files that replace them.
LoaderFileChanges ==
    {EmptyRegistry,
     [version |-> 1, chains |-> <<RegistryChain(<<>>, <<>>, <<>>)>>]}
        \cup {UnreadableFile(kind) : kind \in UnreadableKinds}

InitRegistry ==
    /\ now = Epoch
    /\ registryFile \in LoaderFiles
    /\ head = 0
    /\ rpcUp = FALSE
    /\ QuoteIdle
    /\ IndexerIdle
    /\ ValidatorIdle
    /\ LedgerInit
    /\ RowsIdle
    /\ ValidateIdle
    /\ ExtIdle

NextRegistry ==
    \/ LoadChainRegistry
    \/ TokensPayload
    \/ CacheClear
    \/ \E file \in LoaderFileChanges : RegistryFileChange(file)

SpecRegistry == InitRegistry /\ [][NextRegistry]_vars

(***************************************************************************)
(* API: properties of the chain registry loader.                           *)
(***************************************************************************)
\* C27: load_chain_registry returns the empty snapshot (version 0, no chains)
\* when the snapshot file is missing or does not hold valid JSON, and never raises
\* to its caller.
C27_EmptySnapshotNeverRaises ==
    lastLoad # <<>> =>
        /\ ~lastLoad[1].result.raised
        /\ (/\ lastLoad[1].cache = <<>>
            /\ ~IsSnapshotFile(lastLoad[1].file)
            /\ lastLoad[1].file.unreadable \in {"missing", "not-utf8", "not-json"})
               => lastLoad[1].result.value = <<EmptyRegistry>>

\* C28: a mutation a caller makes to a structure load_chain_registry returned is
\* invisible to every later call: each call returns the snapshot as it was loaded
\* from the file, by this call or by the call that filled the loader's cache.
C28_CallsReturnLoadedSnapshot ==
    (lastLoad # <<>> /\ IsSnapshotFile(lastLoad[1].file)) =>
        /\ ~lastLoad[1].result.raised
        /\ lastLoad[1].cache = <<>> => lastLoad[1].result.value = <<lastLoad[1].file>>
        /\ lastLoad[1].cache # <<>> => lastLoad[1].result.value = lastLoad[1].cache

\* The token is the first of the highest priority among those of its symbol.
IsPreferredToken(chain, k) ==
    \A i \in 1..Len(MergedTokens(chain)) :
        (/\ i # k
         /\ UpperSymbol(MergedTokens(chain)[i].symbol) = UpperSymbol(MergedTokens(chain)[k].symbol))
            => IF i < k
               THEN PriorityGreater(TokenPriority(MergedTokens(chain)[k]),
                                    TokenPriority(MergedTokens(chain)[i]))
               ELSE ~PriorityGreater(TokenPriority(MergedTokens(chain)[i]),
                                     TokenPriority(MergedTokens(chain)[k]))

\* C29: for every chain with chain_id > 0 in the snapshot, tokens_payload has an
\* entry that lists at most one token per upper-cased symbol, in ascending order of
\* the upper-cased symbol, every address matching 0x and 40 hex digits; a listed
\* token is the one of the highest priority (score, then longer address, then first
\* seen) among the chain's tokens of its symbol; the result is a function of the
\* snapshot alone.
C29_TokensListedOncePerSymbol ==
    (/\ lastTokens # <<>>
     /\ lastTokens[1].cache = <<>>
     /\ IsSnapshotFile(lastTokens[1].file)) =>
        /\ ~lastTokens[1].result.raised
        /\ \A c \in 1..Len(lastTokens[1].file.chains) :
              lastTokens[1].file.chains[c].chain_id > 0 =>
                  /\ lastTokens[1].file.chains[c].chain_id
                         \in DOMAIN lastTokens[1].result.value[1].chains
                  /\ \A i, j \in 1..Len(lastTokens[1].result.value[1].chains[
                                            lastTokens[1].file.chains[c].chain_id]) :
                        i < j =>
                            SymbolOrder(UpperSymbol(
                                lastTokens[1].result.value[1].chains[
                                    lastTokens[1].file.chains[c].chain_id][i].symbol))
                              < SymbolOrder(UpperSymbol(
                                    lastTokens[1].result.value[1].chains[
                                        lastTokens[1].file.chains[c].chain_id][j].symbol))
                  /\ \A i \in 1..Len(lastTokens[1].result.value[1].chains[
                                         lastTokens[1].file.chains[c].chain_id]) :
                        /\ IsEvmAddress(lastTokens[1].result.value[1].chains[
                                            lastTokens[1].file.chains[c].chain_id][i].address)
                        /\ \E k \in 1..Len(MergedTokens(LastChainWithId(
                                               lastTokens[1].file.chains,
                                               lastTokens[1].file.chains[c].chain_id))) :
                              /\ MergedTokens(LastChainWithId(
                                     lastTokens[1].file.chains,
                                     lastTokens[1].file.chains[c].chain_id))[k]
                                   = lastTokens[1].result.value[1].chains[
                                         lastTokens[1].file.chains[c].chain_id][i]
                              /\ IsPreferredToken(LastChainWithId(
                                     lastTokens[1].file.chains,
                                     lastTokens[1].file.chains[c].chain_id), k)

(***************************************************************************)
(* Quote Engine: the fees of a chain.                                      *)
(*                                                                         *)
(* A fee of the `amm` section of a chain is <<n>> when int() reads the     *)
(* integer n from it and <<>> when the key is missing or int() rejects the *)
(* value.                                                                  *)
(***************************************************************************)
\* The `amm` section of a chain of the snapshot.
AmmSection(swap_fee_bps, protocol_fee_bps) ==
    [swap_fee_bps |-> swap_fee_bps, protocol_fee_bps |-> protocol_fee_bps]

\* The chain with an `amm` section.
WithAmm(chain, amm) == [amm |-> amm] @@ chain

\* chain.get('amm', {}), when it is a dict
ChainAmm(chain) == IF "amm" \in DOMAIN chain THEN chain.amm ELSE AmmSection(<<>>, <<>>)

\* int(amm_cfg.get(key, default)), with the default on TypeError and ValueError
FeeOrDefault(raw, default) == IF raw = <<>> THEN default ELSE raw[1]

\* `if protocol_fee_bps < 0` and `if protocol_fee_bps > swap_fee_bps`
ClampProtocolFee(protocol_fee_bps, swap_fee_bps) ==
    IF (IF protocol_fee_bps < 0 THEN 0 ELSE protocol_fee_bps) > swap_fee_bps
    THEN swap_fee_bps
    ELSE IF protocol_fee_bps < 0 THEN 0 ELSE protocol_fee_bps

\* swap_fee_bps and protocol_fee_bps of the chain's ChainLiquidityState
ChainFees(chain) ==
    [swap_fee_bps |-> FeeOrDefault(ChainAmm(chain).swap_fee_bps, 30),
     protocol_fee_bps |->
         ClampProtocolFee(FeeOrDefault(ChainAmm(chain).protocol_fee_bps, 5),
                          FeeOrDefault(ChainAmm(chain).swap_fee_bps, 30))]

(***************************************************************************)
(* Quote Engine: the tokens of a chain.                                    *)
(*                                                                         *)
(* `decimals` of a token is <<n>> when int() reads the integer n from it   *)
(* and <<>> when int() rejects the value.                                  *)
(***************************************************************************)
\* The token with a `decimals` entry.
WithDecimals(token, decimals) == [decimals |-> decimals] @@ token

\* decimals of a token: 18 when missing or unreadable, kept within 0..36.
TokenDecimals(token) ==
    IF "decimals" \notin DOMAIN token THEN 18
    ELSE IF token.decimals = <<>> THEN 18
    ELSE IF token.decimals[1] < 0 THEN 0
    ELSE IF token.decimals[1] > 36 THEN 36
    ELSE token.decimals[1]

\* The tokens _refresh reads: those whose symbol is not blank.
NamedTokens(chain) ==
    SelectSeq(ChainTokens(chain), LAMBDA token : StripSymbol(token.symbol) # "")

\* The symbols of the parsed pairs, in the order _refresh meets them.
PairSymbols(chain) ==
    [i \in 1..(2 * Len(ParsedPairs(chain.pairs))) |->
        IF i % 2 = 1 THEN ParsedPairs(chain.pairs)[(i + 1) \div 2].token0_symbol
        ELSE ParsedPairs(chain.pairs)[i \div 2].token1_symbol]

\* `symbols` of _refresh: of the tokens and of every parsed pair, kept or not.
ChainSymbols(chain) ==
    {UpperSymbol(StripSymbol(NamedTokens(chain)[i].symbol)) : i \in 1..Len(NamedTokens(chain))}
        \cup {UpperSymbol(PairSymbols(chain)[i]) : i \in 1..Len(PairSymbols(chain))}

\* `canonical` of _refresh: the spelling of the last token with the symbol, else
\* (setdefault) of the first parsed pair that has it.
CanonicalSymbols(chain) ==
    [upper \in ChainSymbols(chain) |->
        IF \E i \in 1..Len(NamedTokens(chain)) :
               UpperSymbol(StripSymbol(NamedTokens(chain)[i].symbol)) = upper
        THEN StripSymbol(NamedTokens(chain)[
                 CHOOSE i \in 1..Len(NamedTokens(chain)) :
                    /\ UpperSymbol(StripSymbol(NamedTokens(chain)[i].symbol)) = upper
                    /\ \A j \in (i + 1)..Len(NamedTokens(chain)) :
                           UpperSymbol(StripSymbol(NamedTokens(chain)[j].symbol)) # upper
             ].symbol)
        ELSE PairSymbols(chain)[
                 CHOOSE i \in 1..Len(PairSymbols(chain)) :
                    /\ UpperSymbol(PairSymbols(chain)[i]) = upper
                    /\ \A j \in 1..(i - 1) : UpperSymbol(PairSymbols(chain)[j]) # upper]]

\* `token_decimals` of _refresh: of the last token with the symbol.
ChainTokenDecimals(chain) ==
    [upper \in {UpperSymbol(StripSymbol(NamedTokens(chain)[i].symbol)) :
                   i \in 1..Len(NamedTokens(chain))} |->
        TokenDecimals(NamedTokens(chain)[
            CHOOSE i \in 1..Len(NamedTokens(chain)) :
               /\ UpperSymbol(StripSymbol(NamedTokens(chain)[i].symbol)) = upper
               /\ \A j \in (i + 1)..Len(NamedTokens(chain)) :
                      UpperSymbol(StripSymbol(NamedTokens(chain)[j].symbol)) # upper])]

(***************************************************************************)
(* Quote Engine: LiquidityDepthCache.                                      *)
(*                                                                         *)
(* The registry snapshots of the model are those the registry builder      *)
(* writes: every chain is an object with an integer chain_id, and a        *)
(* reserve is a decimal numeral.                                           *)
(***************************************************************************)
\* QUOTE_CACHE_TTL_SECONDS, in seconds of the model's clock.
QuoteCacheTtl == 2

\* ChainLiquidityState
ChainLiquidityState(chain_id, symbols, canonical_symbols, token_decimals, pairs, swap_fee_bps, protocol_fee_bps) ==
    [chain_id |-> chain_id, symbols |-> symbols, canonical_symbols |-> canonical_symbols,
     token_decimals |-> token_decimals, pairs |-> pairs, swap_fee_bps |-> swap_fee_bps,
     protocol_fee_bps |-> protocol_fee_bps]

\* The state _refresh builds for a chain of the payload.
ChainStateOf(chain, allowlist_env) ==
    ChainLiquidityState(chain.chain_id, ChainSymbols(chain), CanonicalSymbols(chain),
                        ChainTokenDecimals(chain), RefreshPairs(chain, allowlist_env),
                        ChainFees(chain).swap_fee_bps, ChainFees(chain).protocol_fee_bps)

\* `chains` of _refresh: chains[chain_id] of the last chain of the payload with
\* that chain_id; a chain_id <= 0 is skipped.
BuildChains(file, allowlist_env) ==
    [id \in {file.chains[i].chain_id :
                i \in {j \in 1..Len(file.chains) : file.chains[j].chain_id > 0}} |->
        ChainStateOf(file.chains[CHOOSE i \in 1..Len(file.chains) :
                                    /\ file.chains[i].chain_id = id
                                    /\ \A j \in (i + 1)..Len(file.chains) :
                                           file.chains[j].chain_id # id],
                     allowlist_env)]

\* self._chains.get(chain_id): <<>> stands for None.
GetLookup(chains_by_id, chain_id) ==
    IF chain_id \in DOMAIN chains_by_id THEN <<chains_by_id[chain_id]>> ELSE <<>>

\* if now >= self._expires_at
NeedsRefresh(t, expires_at) == t >= expires_at

\* What a get_chain call leaves in the log: its argument and time, _expires_at
\* before it, the versions of the snapshot on disk and of the one the cache was
\* built from before it, whether it called _refresh, whether it raised and what it
\* returned.
GetRecord(chain_id, t, expires_before, disk_version, built_version, refreshed, raised, returned) ==
    [chain_id |-> chain_id, at |-> t, expires_before |-> expires_before,
     disk_version |-> disk_version, built_version |-> built_version,
     refreshed |-> refreshed, raised |-> raised, returned |-> returned]

\* _refresh raises at load_chain_registry(): nothing after it runs.
RefreshRaises(file) == LoadChainRegistryCached(<<>>, file).raised

\* get_chain raises: it called _refresh, and _refresh raised.
GetChainRaises(t, expires_at, file) == NeedsRefresh(t, expires_at) /\ RefreshRaises(file)

\* The chain ids the API is asked about.
QuoteChainIds == {31337, 97}

\* The snapshots written while the API runs.
QuoteRegistryChains ==
    {<<>>,
     <<RegistryChain(<<>>, <<>>, <<RegistryPair("0xAA", "mUSD", "WETH", <<2>>, <<3>>)>>)>>,
     <<RegistryChain(<<>>, <<>>, <<RegistryPair("0xAA", "mUSD", "WETH", <<2>>, <<3>>),
                                   RegistryPair("0xbb", " WETH", "MUSD", <<3>>, <<3>>)>>)>>,
     <<[RegistryChain(<<>>, <<>>, <<RegistryPair(" 0xcc", "mUSD", "USDC", <<2>>, <<2>>)>>)
           EXCEPT !.chain_key = "bnb-testnet", !.chain_id = 97],
       RegistryChain(<<>>, <<>>, <<RegistryPair("0xbb", " WETH", "MUSD", <<3>>, <<3>>)>>)>>,
     <<[RegistryChain(<<>>, <<>>, <<RegistryPair("0xbb", " WETH", "MUSD", <<3>>, <<3>>)>>)
           EXCEPT !.chain_key = "draft", !.chain_id = 0]>>}

\* A second passes.
Tick ==
    /\ now < Epoch + MaxSeconds
    /\ now' = now + 1
    /\ UNCHANGED <<registryFile, head, rpcUp>>
    /\ UNCHANGED <<indexerVars, quoteVars, extVars>>
    /\ UNCHANGED <<validTopic, ledgerVars, rowsVars, validatorVars, validateVars>>

\* get_chain(chain_id), with _refresh when the cache has expired: _refresh clears
\* the loader's cache, loads the snapshot and, when the load returns, rebuilds.
GetChainCall(chain_id) ==
    /\ IF NeedsRefresh(now, cache_expires_at)
       THEN /\ registryCache' = CacheAfterLoad(<<>>, registryFile)
            /\ IF RefreshRaises(registryFile)
               THEN UNCHANGED <<cache_chains, cache_expires_at, cacheBuiltFrom>>
               ELSE /\ cache_chains' =
                          BuildChains(LoadChainRegistryCached(<<>>, registryFile).value[1],
                                      canonical_pool_allowlist)
                    /\ cache_expires_at' = now + QuoteCacheTtl
                    /\ cacheBuiltFrom' =
                          <<LoadChainRegistryCached(<<>>, registryFile).value[1]>>
       ELSE UNCHANGED <<cache_chains, cache_expires_at, cacheBuiltFrom, registryCache>>
    /\ lastGet' = <<GetRecord(chain_id, now, cache_expires_at, registryFile.version,
                              IF cacheBuiltFrom = <<>> THEN <<>>
                              ELSE <<cacheBuiltFrom[1].version>>,
                              NeedsRefresh(now, cache_expires_at),
                              GetChainRaises(now, cache_expires_at, registryFile),
                              IF GetChainRaises(now, cache_expires_at, registryFile)
                              THEN <<>> ELSE GetLookup(cache_chains', chain_id))>>

\* A get_chain call on its own.
GetChain(chain_id) ==
    /\ GetChainCall(chain_id)
    /\ UNCHANGED <<lastLoad, lastTokens>>
    /\ UNCHANGED <<buildQuoteVars, feesVars, amountVars, minOutVars, complianceVars>>
    /\ UNCHANGED <<canonical_pool_allowlist, canonChain, canonPairs>>
    /\ UNCHANGED <<envVars, indexerVars, extVars>>
    /\ UNCHANGED <<validTopic, ledgerVars, rowsVars, validatorVars, validateVars>>

InitQuoteCache ==
    /\ now = Epoch
    /\ registryFile \in
           {EmptyRegistry} \cup {[version |-> 1, chains |-> c] : c \in QuoteRegistryChains}
    /\ head = 0
    /\ rpcUp = FALSE
    /\ canonical_pool_allowlist \in AllowlistEnvs
    /\ QuoteCacheIdle
    /\ canonChain = <<>>
    /\ canonPairs = <<>>
    /\ ApiIdle
    /\ IndexerIdle
    /\ ValidatorIdle
    /\ LedgerInit
    /\ RowsIdle
    /\ ValidateIdle
    /\ ExtIdle

NextQuoteCache ==
    \/ Tick
    \/ \E c \in QuoteRegistryChains : RegistryWrite(c)
    \/ \E chain_id \in QuoteChainIds : GetChain(chain_id)

SpecQuoteCache == InitQuoteCache /\ [][NextQuoteCache]_vars

(***************************************************************************)
(* Quote Engine: properties of the cache.                                  *)
(***************************************************************************)
\* The step is a get_chain call.
IsGetStep == lastGet' # lastGet

\* C17: get_chain rebuilds all chain states from a freshly re-read registry
\* exactly when now >= expires_at, and then sets expires_at = now + ttl_seconds; a
\* call with now < expires_at returns the state built by the last refresh,
\* whatever has been written to the registry file since; nothing else changes the
\* cache.
C17_RefreshExactlyOnExpiry ==
    [][/\ IsGetStep =>
              /\ lastGet'[1].refreshed = (now >= cache_expires_at)
              /\ IF now >= cache_expires_at
                 THEN /\ cacheBuiltFrom' = <<registryFile>>
                      /\ cache_chains' = BuildChains(registryFile, canonical_pool_allowlist)
                      /\ cache_expires_at' = now + QuoteCacheTtl
                      /\ lastGet'[1].returned
                             = GetLookup(BuildChains(registryFile, canonical_pool_allowlist),
                                         lastGet'[1].chain_id)
                 ELSE /\ UNCHANGED <<cache_chains, cache_expires_at, cacheBuiltFrom>>
                      /\ lastGet'[1].returned
                             = GetLookup(BuildChains(cacheBuiltFrom[1],
                                                     canonical_pool_allowlist),
                                         lastGet'[1].chain_id)
       /\ ~IsGetStep => UNCHANGED <<cache_chains, cache_expires_at, cacheBuiltFrom>>]_vars

(***************************************************************************)
(* Quote Engine: the fees _refresh gives a chain, on their own.            *)
(***************************************************************************)
\* The fees the registry holds.
FeeInputs == {<<>>, <<-1>>, <<0>>, <<5>>, <<30>>, <<31>>, <<10000>>, <<10001>>}

\* _refresh reaches the fees of the chain.
RefreshFees ==
    /\ feesChain # <<>>
    /\ feesResult = <<>>
    /\ feesResult' = <<ChainFees(feesChain[1])>>
    /\ UNCHANGED feesChain
    /\ UNCHANGED <<loaderVars, buildQuoteVars, amountVars, minOutVars, complianceVars>>
    /\ UNCHANGED <<canonical_pool_allowlist, cache_expires_at, cache_chains, cacheBuiltFrom,
                   lastGet, canonChain, canonPairs>>
    /\ UNCHANGED <<envVars, indexerVars, extVars>>
    /\ UNCHANGED <<validTopic, ledgerVars, rowsVars, validatorVars, validateVars>>

InitFees ==
    /\ feesChain \in
           {<<RegistryChain(<<>>, <<>>, <<>>)>>}
               \cup {<<WithAmm(RegistryChain(<<>>, <<>>, <<>>), AmmSection(s, p))>> :
                        s \in FeeInputs, p \in FeeInputs}
    /\ feesResult = <<>>
    /\ LoaderIdle
    /\ BuildQuoteIdle
    /\ AmountIdle
    /\ MinOutIdle
    /\ ComplianceIdle
    /\ canonical_pool_allowlist = <<>>
    /\ QuoteCacheIdle
    /\ canonChain = <<>>
    /\ canonPairs = <<>>
    /\ EnvIdle
    /\ IndexerIdle
    /\ ValidatorIdle
    /\ LedgerInit
    /\ RowsIdle
    /\ ValidateIdle
    /\ ExtIdle

NextFees == RefreshFees

SpecFees == InitFees /\ [][NextFees]_vars

\* C21: every ChainLiquidityState built by a refresh satisfies
\* 0 <= protocol_fee_bps <= swap_fee_bps <= 10000, for any integer amm.swap_fee_bps
\* and amm.protocol_fee_bps present in the registry snapshot.
C21_FeesWithinBounds ==
    feesResult # <<>> =>
        /\ 0 <= feesResult[1].protocol_fee_bps
        /\ feesResult[1].protocol_fee_bps <= feesResult[1].swap_fee_bps
        /\ feesResult[1].swap_fee_bps <= 10000

(***************************************************************************)
(* Quote Engine: amounts.                                                  *)
(*                                                                         *)
(* An amount is the fraction n/d with d > 0: the value the Decimal         *)
(* expression denotes.  Decimal rounds each product, sum and quotient to   *)
(* 28 significant digits; the amounts of the model are not rounded.        *)
(***************************************************************************)
\* The amount n/d.
Amount(n, d) == [n |-> n, d |-> d]

\* Decimal(n) of an integer n.
AmountOfInt(n) == Amount(n, 1)

\* x * y
AmountTimes(x, y) == Amount(x.n * y.n, x.d * y.d)

\* x + y
AmountPlus(x, y) == Amount(x.n * y.d + y.n * x.d, x.d * y.d)

\* x / y, for y > 0
AmountOver(x, y) == Amount(x.n * y.d, x.d * y.n)

\* x < y
AmountLt(x, y) == x.n * y.d < y.n * x.d

\* x <= y
AmountLe(x, y) == x.n * y.d <= y.n * x.d

\* _amount_out_constant_product with fee_multiplier = Decimal(10_000 + fee_bps)
AmountOutFeeAdded(amount_in, reserve_in, reserve_out, fee_bps) ==
    AmountOver(AmountTimes(AmountTimes(amount_in, AmountOfInt(10000 + fee_bps)), reserve_out),
               AmountPlus(AmountTimes(reserve_in, AmountOfInt(10000)),
                          AmountTimes(amount_in, AmountOfInt(10000 + fee_bps))))

\* _amount_out_constant_product
AmountOutConstantProduct(amount_in, reserve_in, reserve_out, fee_bps) ==
    IF AmountLe(AmountPlus(AmountTimes(reserve_in, AmountOfInt(10000)),
                           AmountTimes(amount_in, AmountOfInt(10000 - fee_bps))),
                AmountOfInt(0))
    THEN AmountOfInt(0)
    ELSE AmountOver(
             AmountTimes(AmountTimes(amount_in, AmountOfInt(10000 - fee_bps)), reserve_out),
             AmountPlus(AmountTimes(reserve_in, AmountOfInt(10000)),
                        AmountTimes(amount_in, AmountOfInt(10000 - fee_bps))))

\* The amounts and reserves the function is called with.
AmountInputs == {AmountOfInt(1), AmountOfInt(2), AmountOfInt(5), Amount(1, 2), AmountOfInt(10)}

\* The fees it is called with: a swap_fee_bps of a chain state.
FeeBpsInputs == {0, 1, 30, 10000, 20000}

\* A call of _amount_out_constant_product.
AmountOutCall ==
    /\ amountArgs # <<>>
    /\ amountOut = <<>>
    /\ amountOut' = <<AmountOutConstantProduct(amountArgs[1].amount_in, amountArgs[1].reserve_in,
                                               amountArgs[1].reserve_out, amountArgs[1].fee_bps)>>
    /\ UNCHANGED amountArgs
    /\ UNCHANGED <<loaderVars, buildQuoteVars, feesVars, minOutVars, complianceVars>>
    /\ UNCHANGED <<canonical_pool_allowlist, cache_expires_at, cache_chains, cacheBuiltFrom,
                   lastGet, canonChain, canonPairs>>
    /\ UNCHANGED <<envVars, indexerVars, extVars>>
    /\ UNCHANGED <<validTopic, ledgerVars, rowsVars, validatorVars, validateVars>>

InitAmount ==
    /\ amountArgs \in
           {<<[amount_in |-> a, reserve_in |-> r, reserve_out |-> o, fee_bps |-> f]>> :
               a \in AmountInputs, r \in AmountInputs, o \in AmountInputs, f \in FeeBpsInputs}
    /\ amountOut = <<>>
    /\ LoaderIdle
    /\ BuildQuoteIdle
    /\ FeesIdle
    /\ MinOutIdle
    /\ ComplianceIdle
    /\ canonical_pool_allowlist = <<>>
    /\ QuoteCacheIdle
    /\ canonChain = <<>>
    /\ canonPairs = <<>>
    /\ EnvIdle
    /\ IndexerIdle
    /\ ValidatorIdle
    /\ LedgerInit
    /\ RowsIdle
    /\ ValidateIdle
    /\ ExtIdle

NextAmount == AmountOutCall

SpecAmount == InitAmount /\ [][NextAmount]_vars

\* amount_in * reserve_out / (reserve_in + amount_in)
NoFeeOutput(amount_in, reserve_in, reserve_out) ==
    AmountOver(AmountTimes(amount_in, reserve_out), AmountPlus(reserve_in, amount_in))

\* The call is one the claim is about: a fee within [0, 10000] bps.
FeeInRange == amountOut # <<>> /\ amountArgs[1].fee_bps \in 0..10000

RECURSIVE Gcd(_, _)
\* The greatest common divisor of a >= 0 and b >= 0.
Gcd(a, b) == IF b = 0 THEN a ELSE Gcd(b, a % b)

\* The amount in lowest terms: the same value.
Lowest(x) ==
    IF x.n = 0 THEN Amount(0, 1)
    ELSE Amount(x.n \div Gcd(IF x.n < 0 THEN -x.n ELSE x.n, x.d),
                x.d \div Gcd(IF x.n < 0 THEN -x.n ELSE x.n, x.d))

\* min(x, y)
AmountMin(x, y) == IF AmountLe(x, y) THEN x ELSE y

RECURSIVE Pow10(_)
\* 10 ** k
Pow10(k) == IF k <= 0 THEN 1 ELSE 10 * Pow10(k - 1)

\* value.quantize(Decimal(1).scaleb(-decimals), rounding=ROUND_DOWN), and
\* quantize(Decimal('1')) for decimals <= 0
Quantize(value, decimals) ==
    Amount((value.n * Pow10(decimals)) \div value.d, Pow10(decimals))

\* _format_amount_for_decimals
FormatAmountForDecimals(value, decimals) == Lowest(Quantize(Lowest(value), decimals))

\* min_out with Decimal(10_000 + slippage_bps)
QuoteMinOutSlippageAdded(expected_out, slippage_bps) ==
    AmountTimes(expected_out, AmountOver(AmountOfInt(10000 + slippage_bps), AmountOfInt(10000)))

\* min_out = expected_out * (Decimal(10_000 - slippage_bps) / Decimal(10_000))
QuoteMinOut(expected_out, slippage_bps) ==
    AmountTimes(expected_out, AmountOver(AmountOfInt(10000 - slippage_bps), AmountOfInt(10000)))

\* `{pair_token0_upper, pair_token1_upper} != {token_in_upper, token_out_upper}`
\* is false: the pair trades the two tokens.
PairTrades(pair, token_in, token_out) ==
    {UpperSymbol(pair.token0_symbol), UpperSymbol(pair.token1_symbol)}
        = {UpperSymbol(token_in), UpperSymbol(token_out)}

\* reserve_in of the pair
ReserveIn(pair, token_in) ==
    IF UpperSymbol(token_in) = UpperSymbol(pair.token0_symbol)
    THEN AmountOfInt(pair.reserve0) ELSE AmountOfInt(pair.reserve1)

\* reserve_out of the pair
ReserveOut(pair, token_in) ==
    IF UpperSymbol(token_in) = UpperSymbol(pair.token0_symbol)
    THEN AmountOfInt(pair.reserve1) ELSE AmountOfInt(pair.reserve0)

\* `out` of the pair
PairOut(pair, fee_bps, token_in, amount_in) ==
    Lowest(AmountOutConstantProduct(amount_in, ReserveIn(pair, token_in),
                                    ReserveOut(pair, token_in), fee_bps))

\* (best_out, best_depth), and the pair of a route's output and depth
RouteResult(out, depth) == [out |-> out, depth |-> depth]

RECURSIVE RouteBest(_, _, _, _, _, _)
\* The loop of _route_amount.
RouteBest(pairs, fee_bps, token_in, token_out, amount_in, best) ==
    IF pairs = <<>> THEN best
    ELSE RouteBest(Tail(pairs), fee_bps, token_in, token_out, amount_in,
                   IF /\ PairTrades(Head(pairs), token_in, token_out)
                      /\ AmountLt(best.out, PairOut(Head(pairs), fee_bps, token_in, amount_in))
                   THEN RouteResult(PairOut(Head(pairs), fee_bps, token_in, amount_in),
                                    AmountMin(ReserveIn(Head(pairs), token_in),
                                              ReserveOut(Head(pairs), token_in)))
                   ELSE best)

\* _route_amount: <<>> for None.
RouteAmount(state, token_in, token_out, amount_in) ==
    IF AmountLe(RouteBest(state.pairs, state.swap_fee_bps, token_in, token_out, amount_in,
                          RouteResult(AmountOfInt(0), AmountOfInt(0))).out,
                AmountOfInt(0))
    THEN <<>>
    ELSE <<RouteBest(state.pairs, state.swap_fee_bps, token_in, token_out, amount_in,
                     RouteResult(AmountOfInt(0), AmountOfInt(0)))>>

\* _legacy_amount
LegacyAmount(token_in, token_out, amount_in) ==
    IF token_in = token_out THEN amount_in
    ELSE IF UpperSymbol(token_in) = "MUSD"
    THEN (IF UpperSymbol(token_out) \in {"WETH", "WSOL"}
          THEN AmountTimes(amount_in, Amount(3, 10000))
          ELSE AmountTimes(amount_in, Amount(2, 100000)))
    ELSE IF UpperSymbol(token_out) = "MUSD"
    THEN (IF UpperSymbol(token_in) \in {"WETH", "WSOL"}
          THEN AmountTimes(amount_in, AmountOfInt(3300))
          ELSE AmountTimes(amount_in, AmountOfInt(52000)))
    ELSE AmountTimes(amount_in, Amount(6, 100))

\* state.canonical_symbols.get(upper, default)
CanonicalSymbol(state, upper, default) ==
    IF upper \in DOMAIN state.canonical_symbols THEN state.canonical_symbols[upper]
    ELSE default

\* state.token_decimals.get(upper, 18)
DecimalsOf(state, upper) ==
    IF upper \in DOMAIN state.token_decimals THEN state.token_decimals[upper] ELSE 18

\* second_leg, given first_leg
SecondLeg(state, musd_symbol, canonical_out, first_leg) ==
    RouteAmount(state, musd_symbol, canonical_out, first_leg.out)

\* via_musd: <<>> for None.
ViaMusd(state, token_in_upper, token_out_upper, canonical_in, canonical_out, amount_in) ==
    IF token_in_upper = "MUSD" \/ token_out_upper = "MUSD" THEN <<>>
    ELSE IF RouteAmount(state, canonical_in, CanonicalSymbol(state, "MUSD", "mUSD"),
                        amount_in) = <<>>
    THEN <<>>
    ELSE IF SecondLeg(state, CanonicalSymbol(state, "MUSD", "mUSD"), canonical_out,
                      RouteAmount(state, canonical_in, CanonicalSymbol(state, "MUSD", "mUSD"),
                                  amount_in)[1]) = <<>>
    THEN <<>>
    ELSE <<RouteResult(
             SecondLeg(state, CanonicalSymbol(state, "MUSD", "mUSD"), canonical_out,
                       RouteAmount(state, canonical_in, CanonicalSymbol(state, "MUSD", "mUSD"),
                                   amount_in)[1])[1].out,
             AmountMin(RouteAmount(state, canonical_in, CanonicalSymbol(state, "MUSD", "mUSD"),
                                   amount_in)[1].depth,
                       SecondLeg(state, CanonicalSymbol(state, "MUSD", "mUSD"), canonical_out,
                                 RouteAmount(state, canonical_in,
                                             CanonicalSymbol(state, "MUSD", "mUSD"),
                                             amount_in)[1])[1].depth))>>

\* expected_out, route, route_depth and liquidity_source of a quote
Routed(expected_out, route, route_depth, liquidity_source) ==
    [expected_out |-> expected_out, route |-> route, route_depth |-> route_depth,
     liquidity_source |-> liquidity_source]

\* The choice between `direct` and `via_musd`.
OnchainRoute(direct, via_musd, canonical_in, musd_symbol, canonical_out) ==
    IF /\ via_musd # <<>>
       /\ AmountLt(IF direct # <<>> THEN direct[1].out ELSE AmountOfInt(0), via_musd[1].out)
    THEN Routed(via_musd[1].out, <<canonical_in, musd_symbol, canonical_out>>,
                via_musd[1].depth, "onchain-cache")
    ELSE IF direct # <<>>
    THEN Routed(direct[1].out, <<canonical_in, canonical_out>>, direct[1].depth,
                "onchain-cache")
    ELSE Routed(AmountOfInt(0), <<>>, AmountOfInt(0), "onchain-cache")

\* The static fallback: the hard-coded rate and its route; route_depth stays.
StaticRoute(onchain, token_in_upper, token_out_upper, canonical_in, musd_symbol, canonical_out, amount_in) ==
    Routed(LegacyAmount(canonical_in, canonical_out, amount_in),
           IF token_in_upper = "MUSD" \/ token_out_upper = "MUSD"
           THEN <<canonical_in, canonical_out>>
           ELSE <<canonical_in, musd_symbol, canonical_out>>,
           onchain.route_depth, "static-fallback")

\* A QuoteEngineError, or an exception that is none.
QuoteRaised(error, status_code, detail) ==
    [raised |-> TRUE, error |-> error, status_code |-> status_code, detail |-> detail,
     value |-> <<>>]

\* The dict build_quote returns.
QuoteReturned(state, chain_id, token_in_upper, token_out_upper, canonical_in, canonical_out, amount_in, slippage_bps, routed) ==
    [raised |-> FALSE, error |-> "", status_code |-> 200, detail |-> "",
     value |-> <<[chain_id |-> chain_id,
                  token_in |-> canonical_in,
                  token_out |-> canonical_out,
                  amount_in |-> FormatAmountForDecimals(amount_in,
                                                        DecimalsOf(state, token_in_upper)),
                  expected_out |-> FormatAmountForDecimals(routed.expected_out,
                                                           DecimalsOf(state, token_out_upper)),
                  min_out |-> FormatAmountForDecimals(QuoteMinOut(routed.expected_out, slippage_bps),
                                                      DecimalsOf(state, token_out_upper)),
                  slippage_bps |-> slippage_bps,
                  route |-> routed.route,
                  route_depth |-> Lowest(routed.route_depth),
                  liquidity_source |-> routed.liquidity_source,
                  total_fee_bps |-> state.swap_fee_bps,
                  protocol_fee_bps |-> state.protocol_fee_bps,
                  lp_fee_bps |-> IF state.swap_fee_bps - state.protocol_fee_bps < 0 THEN 0
                                 ELSE state.swap_fee_bps - state.protocol_fee_bps,
                  protocol_fee_amount_in |->
                      FormatAmountForDecimals(
                          AmountOver(AmountTimes(amount_in, AmountOfInt(state.protocol_fee_bps)),
                                     AmountOfInt(10000)),
                          DecimalsOf(state, token_in_upper)),
                  engine |-> "harmony-engine-v2"]>>]

\* build_quote from `if expected_out <= 0` on.
QuoteOfRoute(state, chain_id, token_in_upper, token_out_upper, canonical_in, canonical_out, amount_in, slippage_bps, allow_static, onchain) ==
    IF AmountLt(AmountOfInt(0), onchain.expected_out)
    THEN QuoteReturned(state, chain_id, token_in_upper, token_out_upper, canonical_in,
                       canonical_out, amount_in, slippage_bps, onchain)
    ELSE IF ~(allow_static \/ chain_id = 31337)
    THEN QuoteRaised("QuoteEngineError", 422, "bootstrap pool liquidity")
    ELSE QuoteReturned(state, chain_id, token_in_upper, token_out_upper, canonical_in,
                       canonical_out, amount_in, slippage_bps,
                       StaticRoute(onchain, token_in_upper, token_out_upper, canonical_in,
                                   CanonicalSymbol(state, "MUSD", "mUSD"), canonical_out,
                                   amount_in))

\* build_quote from the canonical symbols on.
QuoteOfSymbols(state, chain_id, token_in_upper, token_out_upper, canonical_in, canonical_out, amount_in, slippage_bps, allow_static) ==
    QuoteOfRoute(state, chain_id, token_in_upper, token_out_upper, canonical_in,
                 canonical_out, amount_in, slippage_bps, allow_static,
                 OnchainRoute(RouteAmount(state, canonical_in, canonical_out, amount_in),
                              ViaMusd(state, token_in_upper, token_out_upper, canonical_in,
                                      canonical_out, amount_in),
                              canonical_in, CanonicalSymbol(state, "MUSD", "mUSD"),
                              canonical_out))

\* build_quote once get_chain has returned `state` (<<>> for None).
QuoteOfState(state, chain_id, token_in_clean, token_out_clean, amount_in, slippage_bps, allow_static) ==
    IF state = <<>> THEN QuoteRaised("QuoteEngineError", 404, "is not configured")
    ELSE IF UpperSymbol(token_in_clean) \notin state[1].symbols
    THEN QuoteRaised("QuoteEngineError", 422, "token_in is not registered")
    ELSE IF UpperSymbol(token_out_clean) \notin state[1].symbols
    THEN QuoteRaised("QuoteEngineError", 422, "token_out is not registered")
    ELSE QuoteOfSymbols(state[1], chain_id, UpperSymbol(token_in_clean),
                        UpperSymbol(token_out_clean),
                        CanonicalSymbol(state[1], UpperSymbol(token_in_clean), token_in_clean),
                        CanonicalSymbol(state[1], UpperSymbol(token_out_clean),
                                        token_out_clean),
                        amount_in, slippage_bps, allow_static)

\* The checks of build_quote before get_chain: <<>> when they pass.
QuoteRejectedEarly(token_in, token_out, amount_in) ==
    IF AmountLe(amount_in, AmountOfInt(0))
    THEN <<QuoteRaised("QuoteEngineError", 422, "amount_in must be greater than zero")>>
    ELSE IF UpperSymbol(StripSymbol(token_in)) = UpperSymbol(StripSymbol(token_out))
    THEN <<QuoteRaised("QuoteEngineError", 422, "token_in and token_out cannot be the same")>>
    ELSE <<>>

\* The arguments of a build_quote call.
QuoteRequest(chain_id, token_in, token_out, amount_in, slippage_bps) ==
    [chain_id |-> chain_id, token_in |-> token_in, token_out |-> token_out,
     amount_in |-> amount_in, slippage_bps |-> slippage_bps]

\* What a build_quote call leaves in the log: its arguments, the snapshot on disk,
\* whether it reached get_chain and what it returned or raised.
QuoteRecord(request, file, allow_static, called_get_chain, result) ==
    [request |-> request, file |-> file, allow_static |-> allow_static,
     called_get_chain |-> called_get_chain, result |-> result]

\* build_quote(chain_id, token_in, token_out, amount_in, slippage_bps): an
\* exception of get_chain passes through it.
BuildQuote(request) ==
    /\ IF QuoteRejectedEarly(request.token_in, request.token_out, request.amount_in) # <<>>
       THEN /\ lastQuote' = <<QuoteRecord(request, registryFile, allow_static_fallback_global,
                                          FALSE,
                                          QuoteRejectedEarly(request.token_in, request.token_out,
                                                             request.amount_in)[1])>>
            /\ UNCHANGED <<cache_chains, cache_expires_at, cacheBuiltFrom, registryCache,
                           lastGet>>
       ELSE /\ GetChainCall(request.chain_id)
            /\ lastQuote' =
                  <<QuoteRecord(
                      request, registryFile, allow_static_fallback_global, TRUE,
                      IF GetChainRaises(now, cache_expires_at, registryFile)
                      THEN QuoteRaised(LoadChainRegistryCached(<<>>, registryFile).error, 0, "")
                      ELSE QuoteOfState(GetLookup(cache_chains', request.chain_id),
                                        request.chain_id, StripSymbol(request.token_in),
                                        StripSymbol(request.token_out), request.amount_in,
                                        request.slippage_bps, allow_static_fallback_global))>>
    /\ UNCHANGED allow_static_fallback_global
    /\ UNCHANGED <<lastLoad, lastTokens>>
    /\ UNCHANGED <<feesVars, amountVars, minOutVars, complianceVars>>
    /\ UNCHANGED <<canonical_pool_allowlist, canonChain, canonPairs>>
    /\ UNCHANGED <<envVars, indexerVars, extVars>>
    /\ UNCHANGED <<validTopic, ledgerVars, rowsVars, validatorVars, validateVars>>

\* The tokens of the chains: mUSD, WETH and USDC with pools, WBTC without one.
QuoteTokens ==
    <<WithDecimals(RegistryToken("mUSD", "0xE2", "deployed"), <<2>>),
      WithDecimals(RegistryToken("WETH", "0xE1", "contracts.weth"), <<2>>),
      WithDecimals(RegistryToken("USDC", "0xE1", "deployed"), <<1>>),
      WithDecimals(RegistryToken("WBTC", "0xE2", "deployed"), <<0>>)>>

\* A chain of the snapshot with its tokens, fees and pools.
QuoteChain(chain_key, chain_id, amm, pairs) ==
    WithAmm(WithTokens([RegistryChain(<<>>, <<>>, pairs)
                           EXCEPT !.chain_key = chain_key, !.chain_id = chain_id],
                       QuoteTokens),
            amm)

\* The snapshots build_quote finds: the local chain with a thin and with a deep
\* direct WETH/USDC pool beside the two mUSD pools; the local chain without pools
\* and another chain with one pool and the default fees; no chain.
QuoteSnapshots ==
    {[version |-> 1,
      chains |-> <<QuoteChain("hardhat-local", 31337, AmmSection(<<0>>, <<0>>),
                              <<RegistryPair("0xAA", "mUSD", "WETH", <<4>>, <<4>>),
                                RegistryPair("0xbb", "mUSD", "USDC", <<4>>, <<4>>),
                                RegistryPair(" 0xcc", "weth", "USDC", <<1>>, <<1>>)>>)>>],
     [version |-> 1,
      chains |-> <<QuoteChain("hardhat-local", 31337, AmmSection(<<5000>>, <<5>>),
                              <<RegistryPair("0xAA", "mUSD", "WETH", <<4>>, <<4>>),
                                RegistryPair("0xbb", "mUSD", "USDC", <<4>>, <<4>>),
                                RegistryPair(" 0xcc", "weth", "USDC", <<5>>, <<5>>)>>)>>],
     [version |-> 1,
      chains |-> <<QuoteChain("bnb-testnet", 97, AmmSection(<<>>, <<>>),
                              <<RegistryPair("0xAA", "mUSD", "WETH", <<4>>, <<4>>)>>),
                   QuoteChain("hardhat-local", 31337, AmmSection(<<0>>, <<0>>), <<>>)>>],
     EmptyRegistry}

\* The calls: a known chain or an unknown one, symbols in several spellings and an
\* unregistered one, an amount that is positive or not.
QuoteRequests ==
    {QuoteRequest(chain_id, token_in, token_out, amount_in, 50) :
        chain_id \in {31337, 97, 5},
        token_in \in {"mUSD", " WETH", "weth", "USDC", "WBTC", "DOGE"},
        token_out \in {"mUSD", "WETH", "USDC", "DOGE"},
        amount_in \in {AmountOfInt(1), Amount(1, 2), AmountOfInt(0)}}

InitQuote ==
    /\ now = Epoch
    /\ registryFile \in QuoteSnapshots
    /\ head = 0
    /\ rpcUp = FALSE
    /\ allow_static_fallback_global \in BOOLEAN
    /\ lastQuote = <<>>
    /\ LoaderIdle
    /\ FeesIdle
    /\ AmountIdle
    /\ MinOutIdle
    /\ ComplianceIdle
    /\ canonical_pool_allowlist = <<>>
    /\ QuoteCacheIdle
    /\ canonChain = <<>>
    /\ canonPairs = <<>>
    /\ IndexerIdle
    /\ ValidatorIdle
    /\ LedgerInit
    /\ RowsIdle
    /\ ValidateIdle
    /\ ExtIdle

\* The snapshot and the clock stand still: what the cache does with them is the
\* matter of SpecQuoteCache.
NextQuote == \E request \in QuoteRequests : BuildQuote(request)

SpecQuote == InitQuote /\ [][NextQuote]_vars

(***************************************************************************)
(* Quote Engine: properties of build_quote.                                *)
(*                                                                         *)
(* They speak of the last call: of its arguments, of the chain states the  *)
(* snapshot on disk gives and of what the call returned or raised.         *)
(***************************************************************************)
\* The chain states of the snapshot the last call found.
QuotedChains == BuildChains(lastQuote[1].file, canonical_pool_allowlist)

\* The state of the chain the last call asked about.
QuotedState == QuotedChains[lastQuote[1].request.chain_id]

\* token_in and token_out of the last call, trimmed and in upper case.
QuotedIn == UpperSymbol(StripSymbol(lastQuote[1].request.token_in))

QuotedOut == UpperSymbol(StripSymbol(lastQuote[1].request.token_out))

\* The last call failed with this status and returned no quote.
QuoteRejected(status_code) ==
    /\ lastQuote[1].result.raised
    /\ lastQuote[1].result.error = "QuoteEngineError"
    /\ lastQuote[1].result.status_code = status_code
    /\ lastQuote[1].result.value = <<>>

\* C25: build_quote returns no quote and fails with 422 when amount_in <= 0, with
\* 422 when token_in and token_out are equal ignoring case, with 404 when the chain
\* is not in the snapshot, and with 422 when token_in or token_out is not registered
\* for the chain, in this order; symbols are matched ignoring case.
C25_RejectsInOrder ==
    lastQuote # <<>> =>
        IF AmountLe(lastQuote[1].request.amount_in, AmountOfInt(0)) THEN QuoteRejected(422)
        ELSE IF QuotedIn = QuotedOut THEN QuoteRejected(422)
        ELSE IF lastQuote[1].request.chain_id \notin DOMAIN QuotedChains
        THEN QuoteRejected(404)
        ELSE IF QuotedIn \notin QuotedState.symbols \/ QuotedOut \notin QuotedState.symbols
        THEN QuoteRejected(422)
        ELSE ~QuoteRejected(404)

\* The last call passed the four checks.
Quotable ==
    /\ lastQuote # <<>>
    /\ AmountLt(AmountOfInt(0), lastQuote[1].request.amount_in)
    /\ QuotedIn # QuotedOut
    /\ lastQuote[1].request.chain_id \in DOMAIN QuotedChains
    /\ QuotedIn \in QuotedState.symbols
    /\ QuotedOut \in QuotedState.symbols

\* The best direct pool of the chain: <<>> when none gives a positive output.
DirectPool == RouteAmount(QuotedState, QuotedIn, QuotedOut, lastQuote[1].request.amount_in)

\* The first leg of the route through mUSD.
FirstPool == RouteAmount(QuotedState, QuotedIn, "MUSD", lastQuote[1].request.amount_in)

\* The second leg, fed with the output of the first.
SecondPool == RouteAmount(QuotedState, "MUSD", QuotedOut, FirstPool[1].out)

\* The two-hop route is tried and both legs give a positive output.
TwoHopGives ==
    /\ QuotedIn # "MUSD"
    /\ QuotedOut # "MUSD"
    /\ FirstPool # <<>>
    /\ SecondPool # <<>>

\* The last call returned this route with this output and depth.
QuoteRoutes(route, out, depth) ==
    /\ ~lastQuote[1].result.raised
    /\ lastQuote[1].result.value[1].route = route
    /\ lastQuote[1].result.value[1].expected_out
           = FormatAmountForDecimals(out, DecimalsOf(QuotedState, QuotedOut))
    /\ lastQuote[1].result.value[1].route_depth = Lowest(depth)

\* C23: build_quote tries the two-hop route through mUSD (second leg fed with the
\* first leg's output) only when neither endpoint is mUSD, and returns the route
\* with the higher output: the direct one when a direct pool gives a positive
\* output that is at least the two-hop output, the two-hop one when its output is
\* strictly higher or no direct pool exists; expected_out is the output of the
\* returned route and route_depth the minimum reserve along it.
C23_ReturnsRouteWithHigherOutput ==
    (Quotable /\ (DirectPool # <<>> \/ TwoHopGives)) =>
        IF DirectPool # <<>> /\ (~TwoHopGives \/ AmountLe(SecondPool[1].out, DirectPool[1].out))
        THEN QuoteRoutes(<<QuotedState.canonical_symbols[QuotedIn],
                           QuotedState.canonical_symbols[QuotedOut]>>,
                         DirectPool[1].out, DirectPool[1].depth)
        ELSE QuoteRoutes(<<QuotedState.canonical_symbols[QuotedIn],
                           QuotedState.canonical_symbols["MUSD"],
                           QuotedState.canonical_symbols[QuotedOut]>>,
                         SecondPool[1].out,
                         AmountMin(FirstPool[1].depth, SecondPool[1].depth))

\* C24: when no on-chain route gives a positive output, build_quote uses the static
\* rates (liquidity_source 'static-fallback') only if chain_id = 31337 or
\* QUOTE_ALLOW_STATIC_FALLBACK is true, and otherwise fails with 422 and a message
\* containing 'bootstrap pool liquidity'; whenever an on-chain route gives a
\* positive output, liquidity_source is 'onchain-cache'.
C24_StaticRatesOnlyWithoutOnchainRoute ==
    Quotable =>
        IF DirectPool # <<>> \/ TwoHopGives
        THEN /\ ~lastQuote[1].result.raised
             /\ lastQuote[1].result.value[1].liquidity_source = "onchain-cache"
        ELSE IF lastQuote[1].request.chain_id = 31337 \/ lastQuote[1].allow_static
        THEN /\ ~lastQuote[1].result.raised
             /\ lastQuote[1].result.value[1].liquidity_source = "static-fallback"
             /\ lastQuote[1].result.value[1].expected_out
                    = FormatAmountForDecimals(
                          LegacyAmount(QuotedState.canonical_symbols[QuotedIn],
                                       QuotedState.canonical_symbols[QuotedOut],
                                       lastQuote[1].request.amount_in),
                          DecimalsOf(QuotedState, QuotedOut))
        ELSE /\ QuoteRejected(422)
             /\ lastQuote[1].result.detail = "bootstrap pool liquidity"

(***************************************************************************)
(* Quote Engine: the amounts build_quote reports, on their own.            *)
(*                                                                         *)
(* expected_out is the output of the route before it is formatted;         *)
(* decimals is token_decimals of the output token, which _refresh keeps    *)
(* within 0..36.                                                           *)
(***************************************************************************)
\* The outputs of a route.
ExpectedOutInputs ==
    {Amount(39, 10), Amount(19, 10), AmountOfInt(1), AmountOfInt(7), Amount(1, 3),
     Amount(5, 11), Amount(3, 10000), Amount(1001, 1000)}

\* slippage_bps: GET /quote takes 1..3000, build_quote any integer.
SlippageInputs == {0, 1, 50, 3000, 4800, 10000}

\* The decimals of the output token.
DecimalsInputs == {0, 1, 2}

\* 'expected_out' and 'min_out' of the dict build_quote returns.
ReportAmounts ==
    /\ minOutArgs # <<>>
    /\ minOutResult = <<>>
    /\ minOutResult' =
          <<[expected_out |-> FormatAmountForDecimals(minOutArgs[1].expected_out,
                                                      minOutArgs[1].decimals),
             min_out |-> FormatAmountForDecimals(QuoteMinOut(minOutArgs[1].expected_out,
                                                             minOutArgs[1].slippage_bps),
                                                 minOutArgs[1].decimals)]>>
    /\ UNCHANGED minOutArgs
    /\ UNCHANGED <<loaderVars, buildQuoteVars, feesVars, amountVars, complianceVars>>
    /\ UNCHANGED <<canonical_pool_allowlist, cache_expires_at, cache_chains, cacheBuiltFrom,
                   lastGet, canonChain, canonPairs>>
    /\ UNCHANGED <<envVars, indexerVars, extVars>>
    /\ UNCHANGED <<validTopic, ledgerVars, rowsVars, validatorVars, validateVars>>

InitMinOut ==
    /\ minOutArgs \in
           {<<[expected_out |-> e, slippage_bps |-> b, decimals |-> d]>> :
               e \in ExpectedOutInputs, b \in SlippageInputs, d \in DecimalsInputs}
    /\ minOutResult = <<>>
    /\ LoaderIdle
    /\ BuildQuoteIdle
    /\ FeesIdle
    /\ AmountIdle
    /\ ComplianceIdle
    /\ canonical_pool_allowlist = <<>>
    /\ QuoteCacheIdle
    /\ canonChain = <<>>
    /\ canonPairs = <<>>
    /\ EnvIdle
    /\ IndexerIdle
    /\ ValidatorIdle
    /\ LedgerInit
    /\ RowsIdle
    /\ ValidateIdle
    /\ ExtIdle

NextMinOut == ReportAmounts

SpecMinOut == InitMinOut /\ [][NextMinOut]_vars

\* amount * (10000 - slippage_bps) / 10000
AfterSlippage(amount, slippage_bps) ==
    Lowest(AmountTimes(amount, Amount(10000 - slippage_bps, 10000)))

\* x is amount rounded down to `decimals` places: a multiple of 10 ** -decimals
\* with x <= amount < x + 10 ** -decimals.
IsRoundedDown(x, amount, decimals) ==
    /\ Pow10(decimals) % Lowest(x).d = 0
    /\ AmountLe(x, amount)
    /\ AmountLt(amount, Lowest(AmountPlus(Lowest(x), Amount(1, Pow10(decimals)))))

StripItem(item) ==
    CASE item = " " -> ""
      [] item = " KP " -> "KP"
      [] item = " 0xbad" -> "0xbad"
      [] OTHER -> item

\* _csv_set
CsvSet(raw) == {Lower(StripItem(raw[i])) : i \in {j \in 1..Len(raw) : StripItem(raw[j]) # ""}}

\* The settings enforce_optional_compliance reads.
ComplianceSettings(enabled, blocked_countries, sanctions_blocked_wallets) ==
    [compliance_enforcement_enabled |-> enabled,
     compliance_blocked_countries |-> blocked_countries,
     compliance_sanctions_blocked_wallets |-> sanctions_blocked_wallets]

\* `if value and value.lower() in blocked`
IsBlocked(value, blocked) ==
    /\ value # <<>>
    /\ value[1] # ""
    /\ Lower(value[1]) \in blocked

\* The function returns (status_code 0) or raises HTTPException(status_code).
ComplianceOutcome(raised, status_code) == [raised |-> raised, status_code |-> status_code]

\* enforce_optional_compliance with the wallet looked up before the country
EnforceWalletFirst(cfg, country_code, wallet_address) ==
    IF ~cfg.compliance_enforcement_enabled THEN ComplianceOutcome(FALSE, 0)
    ELSE IF IsBlocked(wallet_address, CsvSet(cfg.compliance_sanctions_blocked_wallets))
    THEN ComplianceOutcome(TRUE, 403)
    ELSE IF IsBlocked(country_code, CsvSet(cfg.compliance_blocked_countries))
    THEN ComplianceOutcome(TRUE, 451)
    ELSE ComplianceOutcome(FALSE, 0)

\* enforce_optional_compliance
EnforceOptionalCompliance(cfg, country_code, wallet_address) ==
    IF ~cfg.compliance_enforcement_enabled THEN ComplianceOutcome(FALSE, 0)
    ELSE IF IsBlocked(country_code, CsvSet(cfg.compliance_blocked_countries))
    THEN ComplianceOutcome(TRUE, 451)
    ELSE IF IsBlocked(wallet_address, CsvSet(cfg.compliance_sanctions_blocked_wallets))
    THEN ComplianceOutcome(TRUE, 403)
    ELSE ComplianceOutcome(FALSE, 0)

\* A call of enforce_optional_compliance.
EnforceCompliance ==
    /\ complianceArgs # <<>>
    /\ complianceResult = <<>>
    /\ complianceResult' = <<EnforceOptionalCompliance(complianceArgs[1].settings,
                                                       complianceArgs[1].country_code,
                                                       complianceArgs[1].wallet_address)>>
    /\ UNCHANGED complianceArgs
    /\ UNCHANGED <<loaderVars, buildQuoteVars, feesVars, amountVars, minOutVars>>
    /\ UNCHANGED <<canonical_pool_allowlist, cache_expires_at, cache_chains, cacheBuiltFrom,
                   lastGet, canonChain, canonPairs>>
    /\ UNCHANGED <<envVars, indexerVars, extVars>>
    /\ UNCHANGED <<validTopic, ledgerVars, rowsVars, validatorVars, validateVars>>

\* COMPLIANCE_BLOCKED_COUNTRIES: unset, 'ir,kp' and ' KP ,us, '.
BlockedCountriesInputs == {<<"">>, <<"ir", "kp">>, <<" KP ", "us", " ">>}

\* COMPLIANCE_SANCTIONS_BLOCKED_WALLETS: unset, '0xBAD' and ' 0xbad,'.
SanctionedWalletsInputs == {<<"">>, <<"0xBAD">>, <<" 0xbad", "">>}

\* country_code of a request: none, empty, listed in either case, not listed,
\* and listed but for the spaces around it.
CountryCodeInputs == {<<>>, <<"">>, <<"KP">>, <<"kp">>, <<"de">>, <<" KP ">>}

\* wallet_address of a request.
WalletAddressInputs == {<<>>, <<"0xBAD">>, <<"0xbad">>, <<"0xUSER">>}

InitCompliance ==
    /\ complianceArgs \in
           {<<[settings |-> ComplianceSettings(e, c, w), country_code |-> cc,
               wallet_address |-> wa]>> :
               e \in BOOLEAN, c \in BlockedCountriesInputs, w \in SanctionedWalletsInputs,
               cc \in CountryCodeInputs, wa \in WalletAddressInputs}
    /\ complianceResult = <<>>
    /\ LoaderIdle
    /\ BuildQuoteIdle
    /\ FeesIdle
    /\ AmountIdle
    /\ MinOutIdle
    /\ canonical_pool_allowlist = <<>>
    /\ QuoteCacheIdle
    /\ canonChain = <<>>
    /\ canonPairs = <<>>
    /\ EnvIdle
    /\ IndexerIdle
    /\ ValidatorIdle
    /\ LedgerInit
    /\ RowsIdle
    /\ ValidateIdle
    /\ ExtIdle

NextCompliance == EnforceCompliance

SpecCompliance == InitCompliance /\ [][NextCompliance]_vars

\* The value is an entry of the list, ignoring case.
ListedIgnoringCase(value, raw) ==
    /\ value # <<>>
    /\ \E i \in 1..Len(raw) : StripItem(raw[i]) # "" /\ Lower(StripItem(raw[i])) = Lower(value[1])

\* The country of the request is on the blocked list.
CountryListed ==
    ListedIgnoringCase(complianceArgs[1].country_code,
                       complianceArgs[1].settings.compliance_blocked_countries)

\* The wallet of the request is on the sanctions list.
WalletListed ==
    ListedIgnoringCase(complianceArgs[1].wallet_address,
                       complianceArgs[1].settings.compliance_sanctions_blocked_wallets)

\* C30: enforce_optional_compliance never rejects when enforcement is disabled;
\* when it is enabled it rejects with 451 a country_code on the blocked list and
\* with 403 a wallet_address on the sanctions list, both compared ignoring case
\* and the country checked first, and lets pass a request that matches neither.
C30_RejectsListedCountryThenWallet ==
    complianceResult # <<>> =>
        complianceResult[1] =
            IF ~complianceArgs[1].settings.compliance_enforcement_enabled
            THEN ComplianceOutcome(FALSE, 0)
            ELSE IF CountryListed THEN ComplianceOutcome(TRUE, 451)
            ELSE IF WalletListed THEN ComplianceOutcome(TRUE, 403)
            ELSE ComplianceOutcome(FALSE, 0)

\* With enforcement enabled, a request whose country is listed in another case and
\* whose wallet is sanctioned was rejected with 451.
C30_Witness ==
    /\ complianceResult # <<>>
    /\ complianceArgs[1].settings.compliance_enforcement_enabled
    /\ complianceArgs[1].country_code = <<"KP">>
    /\ CountryListed
    /\ WalletListed
    /\ complianceResult[1] = ComplianceOutcome(TRUE, 451)
(***************************************************************************)
(* Ledger Writer: the connection after a failed transaction.               *)
(***************************************************************************)
\* C34: after one note failed with an exception raised inside the DB transaction,
\* the writer keeps running and persists every later note: no later note fails with
\* the failed transaction the earlier note left on the connection.
C34_LaterNotesStillPersisted == logged # <<"InFailedSqlTransaction">>

(***************************************************************************)
(* Ledger Writer: notes that derive no ledger rows.                        *)
(***************************************************************************)
\* Notes the validator accepts and _build_ledger_rows derives no rows from: an
\* action with no add_pair call, and a SWAP whose amounts are all zero.
NoRowsNotes ==
    { ValidNote("n2", "c3", "PROTOCOL_FEE_ACCRUED", <<"1">>, <<"0">>, <<"0">>, <<"0">>, <<"0">>),
      ValidNote("n3", "c4", "SWAP", <<"0">>, <<"0">>, <<"0">>, <<"0">>, <<"0">>) }

\* The Ledger Writer on a valid topic that carries these notes only.
NextNoRows ==
    \/ \E n \in NoRowsNotes : ValidTopicAppend(n)
    \/ LwPoll
    \/ LwPersist
    \/ LwBranch
    \/ LwPublishLedgerBatch
    \/ LwPublishOutbox
    \/ LwWriteClickhouse
    \/ LwCommit
    \/ LwRestart

SpecNoRows == InitLedger /\ [][NextNoRows]_vars

\* The note of this iteration derives no ledger rows: its action has no add_pair
\* call, or every amount of its calls is zero.
DerivesNoRows ==
    /\ msg # <<>>
    /\ ~BuildLedgerRows(valid).raised
    /\ BuildLedgerRows(valid).rows = <<>>

\* _persist returned for msg and its INSERT gave a row back: the first sighting.
FirstSighting == msg # <<>> /\ inserted /\ "db_commit" \in Range(effects)

BatchesOf(note_id) == SelectSeq(ledgerEntriesTopic, LAMBDA b : b.note_id = note_id)

\* C36: a PROTOCOL_FEE_ACCRUED note, and a note whose amounts are all zero, gets no
\* ledger entries but is recorded on its first sighting: once _persist returned with
\* a row, the tables hold one dex_transactions row and one dex_outbox row for it and
\* no dex_ledger_entries row, run() goes on to the three post-commit steps, and
\* when it reaches consumer.commit it has published one ledger batch with no
\* entries and one outbox message and has inserted one OLAP row.
C36_NoRowsNoteStillRecorded ==
    /\ \A n \in NoRowsNotes : BuildLedgerRows(n) = [raised |-> FALSE, rows |-> <<>>]
    /\ (DerivesNoRows /\ FirstSighting) =>
          /\ CountOf(dex_transactions, valid.note_id) = 1
          /\ OutboxCountOf(valid.note_id) = 1
          /\ EntriesOf(valid.note_id) = <<>>
          /\ pc # "poll" => pc \in {"after_persist", "publish_ledger_batch", "publish_outbox",
                                     "write_clickhouse", "commit"}
          /\ pc = "commit" =>
                /\ effects = <<"db_commit", "ledger_batch_publish", "outbox_publish",
                                "olap_insert">>
                /\ Len(BatchesOf(valid.note_id)) = 1
                /\ BatchesOf(valid.note_id)[1].entries = <<>>
                /\ CountOf(outboxTopic, valid.note_id) = 1
                /\ CountOf(olapRows, valid.note_id) = 1

\* Both kinds of note went through their first sighting to consumer.commit.
C36_Witness ==
    /\ DerivesNoRows
    /\ FirstSighting
    /\ pc = "commit"
    /\ valid.note_id = "n3"
    /\ CountOf(olapRows, "n2") = 1

(***************************************************************************)
(* Two Ledger Writer processes on one database.  Each is run() on one      *)
(* delivery, with a connection of its own; the statements of _persist are  *)
(* steps, so that the two transactions interleave.                         *)
(***************************************************************************)
WriterIds == {"w1", "w2"}

\* The deliveries the two processes may get: the same note_id twice.
WriterNotes == {n \in LedgerNotes : n.note_id = "n1"}

\* A transaction with no statement made.
NoTx == [dex_transactions |-> <<>>, dex_ledger_entries |-> <<>>, dex_outbox |-> <<>>]

\* A process before consumer.poll returns.
WriterAtPoll ==
    [pc |-> "poll", note |-> <<>>, fetched |-> FALSE, row |-> FALSE, tx |-> NoTx, did |-> {}]

\* Another process holds an uncommitted dex_transactions row with the note_id: the
\* unique index makes this INSERT wait until that transaction ends.
InsertWaits(w) ==
    \E o \in WriterIds \ {w} :
        \E i \in 1..Len(writers[o].tx.dex_transactions) :
            writers[o].tx.dex_transactions[i].note_id = writers[w].note[1].note_id

\* What the two-process actions leave alone of the single Ledger Writer.
soloWriterVars ==
    <<validTopic, position, committed, pc, msg, inserted, pgBroken, failedOffsets, effects,
      logged>>

writersFrame ==
    <<soloWriterVars, rowsVars, validatorVars, validateVars, envVars, indexerVars,
      quoteVars, refreshVars, olapClientVars, builderVars>>

\* The except branch of run() in process w: the failure is logged; the database has
\* aborted the transaction and dropped its rows and locks.
WExcept(w) ==
    writers' = [writers EXCEPT ![w].pc = "failed", ![w].tx = NoTx]

\* message = self.consumer.poll(1.0) in process w.
WPoll(w, n) ==
    /\ writers[w].pc = "poll"
    /\ writers' = [writers EXCEPT ![w].pc = "insert_transaction", ![w].note = <<n>>]
    /\ UNCHANGED <<dex_transactions, dex_ledger_entries, dex_outbox, ledgerEntriesTopic,
                   outboxTopic, olapRows>>
    /\ UNCHANGED writersFrame

\* INSERT INTO dex_transactions ... ON CONFLICT (note_id) DO NOTHING RETURNING tx_id;
\* row = cur.fetchone(); inserted = row is not None.
WInsertTransaction(w) ==
    /\ writers[w].pc = "insert_transaction"
    /\ ~InsertWaits(w)
    /\ \E ok \in BOOLEAN :
         IF ok
         THEN LET s1 == InsertTransaction(dex_transactions, writers[w].note[1])
              IN  writers' =
                     [writers EXCEPT
                        ![w].pc = "insert_ledger_entries",
                        ![w].fetched = TRUE,
                        ![w].row = s1.row,
                        ![w].did = IF s1.row THEN {"row"} ELSE {},
                        ![w].tx.dex_transactions =
                            IF s1.row THEN <<writers[w].note[1]>> ELSE <<>>]
         ELSE WExcept(w)
    /\ UNCHANGED <<dex_transactions, dex_ledger_entries, dex_outbox, ledgerEntriesTopic,
                   outboxTopic, olapRows>>
    /\ UNCHANGED writersFrame

\* `if inserted and ledger_rows:` execute_values INSERT INTO dex_ledger_entries.
WInsertLedgerEntries(w) ==
    /\ writers[w].pc = "insert_ledger_entries"
    /\ IF writers[w].row /\ BuildLedgerRows(writers[w].note[1]).rows # <<>>
       THEN \E ok \in BOOLEAN :
              IF ok
              THEN writers' =
                     [writers EXCEPT
                        ![w].pc = "insert_outbox",
                        ![w].did = @ \cup {"insert_ledger_entries"},
                        ![w].tx.dex_ledger_entries =
                            BuildLedgerRows(writers[w].note[1]).rows]
              ELSE WExcept(w)
       ELSE writers' = [writers EXCEPT ![w].pc = "insert_outbox"]
    /\ UNCHANGED <<dex_transactions, dex_ledger_entries, dex_outbox, ledgerEntriesTopic,
                   outboxTopic, olapRows>>
    /\ UNCHANGED writersFrame

\* `if inserted:` INSERT INTO dex_outbox.
WInsertOutbox(w) ==
    /\ writers[w].pc = "insert_outbox"
    /\ IF writers[w].row
       THEN \E ok \in BOOLEAN :
              IF ok
              THEN writers' =
                     [writers EXCEPT
                        ![w].pc = "db_commit",
                        ![w].did = @ \cup {"insert_outbox"},
                        ![w].tx.dex_outbox = <<OutboxRow(writers[w].note[1])>>]
              ELSE WExcept(w)
       ELSE writers' = [writers EXCEPT ![w].pc = "db_commit"]
    /\ UNCHANGED <<dex_transactions, dex_ledger_entries, dex_outbox, ledgerEntriesTopic,
                   outboxTopic, olapRows>>
    /\ UNCHANGED writersFrame

\* self.pg_conn.commit(), and `if inserted:` of run() after it.
WDbCommit(w) ==
    /\ writers[w].pc = "db_commit"
    /\ \E ok \in BOOLEAN :
         IF ok
         THEN /\ dex_transactions' = dex_transactions \o writers[w].tx.dex_transactions
              /\ dex_ledger_entries' = dex_ledger_entries \o writers[w].tx.dex_ledger_entries
              /\ dex_outbox' = dex_outbox \o writers[w].tx.dex_outbox
              /\ writers' =
                    [writers EXCEPT
                       ![w].pc = IF Publishes(writers[w].row) THEN "publish_ledger_batch"
                                 ELSE "commit",
                       ![w].did = IF writers[w].row THEN @ \cup {"db_commit"} ELSE @,
                       ![w].tx = NoTx]
         ELSE /\ WExcept(w)
              /\ UNCHANGED <<dex_transactions, dex_ledger_entries, dex_outbox>>
    /\ UNCHANGED <<ledgerEntriesTopic, outboxTopic, olapRows>>
    /\ UNCHANGED writersFrame

\* self._publish_ledger_batch(valid, ledger_rows) in process w.
WPublishLedgerBatch(w) ==
    /\ writers[w].pc = "publish_ledger_batch"
    /\ \E ok \in BOOLEAN :
         IF ok
         THEN /\ ledgerEntriesTopic' =
                    Append(ledgerEntriesTopic,
                           [tx_id |-> writers[w].note[1].tx_id,
                            note_id |-> writers[w].note[1].note_id,
                            correlation_id |-> writers[w].note[1].correlation_id,
                            entries |-> BuildLedgerRows(writers[w].note[1]).rows])
              /\ writers' = [writers EXCEPT ![w].pc = RunOrder("publish_ledger_batch"),
                                            ![w].did = @ \cup {"ledger_batch_publish"}]
         ELSE /\ WExcept(w)
              /\ UNCHANGED ledgerEntriesTopic
    /\ UNCHANGED <<dex_transactions, dex_ledger_entries, dex_outbox, outboxTopic, olapRows>>
    /\ UNCHANGED writersFrame

\* self._publish_outbox(outbox_payload) in process w.
WPublishOutbox(w) ==
    /\ writers[w].pc = "publish_outbox"
    /\ \E ok \in BOOLEAN :
         IF ok
         THEN /\ outboxTopic' = Append(outboxTopic, outbox_payload(writers[w].note[1]))
              /\ writers' = [writers EXCEPT ![w].pc = RunOrder("publish_outbox"),
                                            ![w].did = @ \cup {"outbox_publish"}]
         ELSE /\ WExcept(w)
              /\ UNCHANGED outboxTopic
    /\ UNCHANGED <<dex_transactions, dex_ledger_entries, dex_outbox, ledgerEntriesTopic,
                   olapRows>>
    /\ UNCHANGED writersFrame

\* self._write_clickhouse(valid) in process w.
WWriteClickhouse(w) ==
    /\ writers[w].pc = "write_clickhouse"
    /\ \E ok \in BOOLEAN :
         IF ok
         THEN /\ olapRows' = Append(olapRows, [tx_id |-> writers[w].note[1].tx_id,
                                               note_id |-> writers[w].note[1].note_id])
              /\ writers' = [writers EXCEPT ![w].pc = RunOrder("write_clickhouse"),
                                            ![w].did = @ \cup {"olap_insert"}]
         ELSE /\ WExcept(w)
              /\ UNCHANGED olapRows
    /\ UNCHANGED <<dex_transactions, dex_ledger_entries, dex_outbox, ledgerEntriesTopic,
                   outboxTopic>>
    /\ UNCHANGED writersFrame

\* consumer.commit(message=message, asynchronous=False) in process w.
WCommit(w) ==
    /\ writers[w].pc = "commit"
    /\ \E ok \in BOOLEAN :
         IF ok THEN writers' = [writers EXCEPT ![w].pc = "done"] ELSE WExcept(w)
    /\ UNCHANGED <<dex_transactions, dex_ledger_entries, dex_outbox, ledgerEntriesTopic,
                   outboxTopic, olapRows>>
    /\ UNCHANGED writersFrame

InitWriters ==
    /\ writers = [w \in WriterIds |-> WriterAtPoll]
    /\ LedgerInit
    /\ RowsIdle
    /\ ValidatorIdle
    /\ ValidateIdle
    /\ EnvIdle
    /\ IndexerIdle
    /\ QuoteIdle
    /\ RefreshIdle
    /\ OlapClientIdle
    /\ BuilderIdle

NextWriters ==
    \E w \in WriterIds :
        \/ \E n \in WriterNotes : WPoll(w, n)
        \/ WInsertTransaction(w)
        \/ WInsertLedgerEntries(w)
        \/ WInsertOutbox(w)
        \/ WDbCommit(w)
        \/ WPublishLedgerBatch(w)
        \/ WPublishOutbox(w)
        \/ WWriteClickhouse(w)
        \/ WCommit(w)

SpecWriters == InitWriters /\ [][NextWriters]_vars

(***************************************************************************)
(* Two Ledger Writer processes: properties.                                *)
(***************************************************************************)
WritersWithRow == {w \in WriterIds : writers[w].row}

WritersCommitted == {w \in WriterIds : "db_commit" \in writers[w].did}

\* Process w got a row back and its transaction failed before pg_conn.commit()
\* returned.
LostRow(w) ==
    /\ writers[w].row
    /\ writers[w].pc = "failed"
    /\ "db_commit" \notin writers[w].did

\* C35 as stated: when the INSERTs of both processes have returned, exactly one of
\* them got a row back, and a process that got none inserted and published nothing.
C35_ExactlyOneGetsRow ==
    (\A w \in WriterIds : writers[w].fetched) =>
        /\ Cardinality(WritersWithRow) = 1
        /\ \A w \in WriterIds \ WritersWithRow : writers[w].did = {}

\* C35 amended: at most one of the two processes commits a dex_transactions row for
\* the note_id, and the tables and topics never hold more than one row, outbox row,
\* batch, outbox message or OLAP row for it; when both INSERTs have returned, exactly
\* one got a row back unless a process that got one lost it to a failure of its
\* transaction; only a process that got a row back inserts ledger entries and the
\* outbox row, and only the one whose transaction committed makes the publishes and
\* the OLAP insert.
C35_AtMostOneCommitsRow ==
    /\ Cardinality(WritersCommitted) <= 1
    /\ CountOf(dex_transactions, "n1") <= 1
    /\ OutboxCountOf("n1") <= 1
    /\ CountOf(ledgerEntriesTopic, "n1") <= 1
    /\ CountOf(outboxTopic, "n1") <= 1
    /\ CountOf(olapRows, "n1") <= 1
    /\ ((\A w \in WriterIds : writers[w].fetched) /\ ~(\E w \in WriterIds : LostRow(w))) =>
          Cardinality(WritersWithRow) = 1
    /\ \A w \in WriterIds :
          /\ writers[w].did # {} => writers[w].row
          /\ writers[w].did \cap PostCommitEffects # {} => w \in WritersCommitted

\* Both processes ran to consumer.commit: one got the row and made every step, the
\* other got none and made no step.
C35_Witness ==
    /\ \A w \in WriterIds : writers[w].pc = "done"
    /\ \E w \in WriterIds :
          /\ writers[w].did = {"row", "insert_ledger_entries", "insert_outbox", "db_commit"}
                                 \cup PostCommitEffects
          /\ \A o \in WriterIds \ {w} : writers[o].fetched /\ writers[o].did = {}

(***************************************************************************)
(* Indexer: _refresh_registry_watchlists on its own, followed by the poll  *)
(* of the same iteration of run().                                         *)
(***************************************************************************)
\* Settings with each watchlist overridden or not, and the refresh on or off.
RefreshSettings ==
    {[chain_key |-> "hardhat-local", chain_id |-> 31337, confirmation_depth |-> 0,
      registry_refresh_seconds |-> rs,
      pair_addresses_overridden |-> po, stabilizer_addresses_overridden |-> so] :
        rs \in {0, 2}, po \in BOOLEAN, so \in BOOLEAN}

\* The watchlists, the last refresh (one or two seconds before Epoch) and the
\* pair-metadata cache the call finds.
RefreshWatchlists ==
    {Watchlists(p, st, at, meta) :
        p \in {<<>>, <<"0xPAIR">>}, st \in {<<>>, <<"0xSTAB">>},
        at \in {Epoch - 2, Epoch - 1}, meta \in {{}, {"0xPAIR"}}}

RefreshFiles ==
    {EmptyRegistry} \cup {[version |-> 1, chains |-> c] : c \in IndexerRegistryChains}

\* The head block of the chain the poll reads.
RefreshHead == 3

RefreshCursors == {<<>>, <<2>>}

\* What the iteration does after the refresh: _poll_chain_once with the watchlists
\* the refresh left, when there is something to watch.
PollAfterRefresh(a, w) ==
    IF PollsChain(TRUE, w)
    THEN <<PollChainOnce(a.current_block, RefreshHead, TRUE, a.cfg.confirmation_depth,
                         w.pair_addresses, w.stabilizer_addresses,
                         Cardinality(ChainLogs) + 3)>>
    ELSE <<>>

RefreshOutcome(a, w) == [w |-> w, current_block |-> a.current_block, poll |-> PollAfterRefresh(a, w)]

\* self._refresh_registry_watchlists() at time Epoch, and the poll after it.
RefreshCall ==
    /\ refreshArgs # <<>>
    /\ refreshResult = <<>>
    /\ refreshResult' =
          <<RefreshOutcome(refreshArgs[1],
                           RefreshRegistryWatchlists(refreshArgs[1].cfg, refreshArgs[1].w,
                                                     Epoch, refreshArgs[1].file))>>
    /\ UNCHANGED refreshArgs
    /\ UNCHANGED <<validTopic, ledgerVars, rowsVars, validatorVars, validateVars>>
    /\ UNCHANGED <<envVars, indexerVars, quoteVars, writers, olapClientVars, builderVars>>

InitRefresh ==
    /\ refreshArgs \in
          {<<[cfg |-> c, w |-> w, file |-> f, current_block |-> cur]>> :
              c \in RefreshSettings, w \in RefreshWatchlists, f \in RefreshFiles,
              cur \in RefreshCursors}
    /\ refreshResult = <<>>
    /\ WritersIdle
    /\ OlapClientIdle
    /\ BuilderIdle
    /\ EnvIdle
    /\ IndexerIdle
    /\ QuoteIdle
    /\ ValidatorIdle
    /\ LedgerInit
    /\ RowsIdle
    /\ ValidateIdle

NextRefresh == RefreshCall

SpecRefresh == InitRefresh /\ [][NextRefresh]_vars

\* registry_refresh_seconds have elapsed since the last refresh (and the refresh is
\* on).
RefreshDue(a) ==
    /\ a.cfg.registry_refresh_seconds > 0
    /\ Epoch - a.w.last_registry_refresh_at >= a.cfg.registry_refresh_seconds

\* The registry has an entry for the chain.
RegistryHasChain(a) ==
    \E i \in 1..Len(a.file.chains) : a.file.chains[i].chain_key = a.cfg.chain_key

RegistryList(a, key) ==
    NormalizeAddresses(LoadChainFromRegistry(a.file, a.cfg.chain_key)[1][key])

\* The blocks of the logs the poll after the refresh asked for or handled.
PolledBlocks(r) ==
    IF r.poll = <<>> THEN {}
    ELSE {r.poll[1].work[i].log[1].blockNumber :
             i \in {j \in 1..Len(r.poll[1].work) : r.poll[1].work[j].kind = "handle"}}

RefreshFrame(a, r) ==
    /\ a.cfg.pair_addresses_overridden => r.w.pair_addresses = a.w.pair_addresses
    /\ a.cfg.stabilizer_addresses_overridden =>
          r.w.stabilizer_addresses = a.w.stabilizer_addresses
    /\ (~RefreshDue(a) \/ ~RegistryHasChain(a)) =>
          /\ r.w.pair_addresses = a.w.pair_addresses
          /\ r.w.stabilizer_addresses = a.w.stabilizer_addresses
          /\ r.w.pair_meta_cache = a.w.pair_meta_cache
    /\ ~RefreshDue(a) => r.w = a.w
    /\ (/\ RefreshDue(a)
        /\ RegistryHasChain(a)
        /\ ~(a.cfg.pair_addresses_overridden /\ a.cfg.stabilizer_addresses_overridden)) =>
          /\ ~a.cfg.pair_addresses_overridden =>
                r.w.pair_addresses = RegistryList(a, "pair_addresses")
          /\ ~a.cfg.stabilizer_addresses_overridden =>
                r.w.stabilizer_addresses = RegistryList(a, "stabilizer_addresses")
          /\ r.w.pair_meta_cache =
                IF r.w.pair_addresses # a.w.pair_addresses THEN {} ELSE a.w.pair_meta_cache
    /\ r.current_block = a.current_block
    /\ (r.poll # <<>> /\ a.current_block # <<>>) =>
          /\ r.poll[1].range # <<>> => r.poll[1].range[1] = a.current_block[1]
          /\ \A b \in PolledBlocks(r) : b >= a.current_block[1]

MaxApiCalls == 4

\* Query(default=60, ge=1, le=43200)
AnalyticsMinutes == {1, 60}

\* _analytics_empty(minutes, warning)
AnalyticsEmpty(minutes, warning) ==
    [minutes |-> minutes, rows |-> "empty", warning |-> warning]

\* The payload analytics() returns from the six query results.
AnalyticsData(minutes) ==
    [minutes |-> minutes, rows |-> "as_dicts", warning |-> <<>>]

\* One call in the log: the client it found, what _connect_clickhouse and the
\* queries did (<<>> when not called), whether _ch.close() was called, whether the
\* call raised, the client it left and what it returned.
ApiCall(op, before, connect, query, closed, raised, after, response) ==
    [op |-> op, client_before |-> before, connect |-> connect, query |-> query,
     closed |-> closed, raised |-> raised, client_after |-> after, response |-> response]

\* The except branch of the queries with `_ch = None` left out.
AnalyticsQueryFailedKeepsClient(client, connect, minutes) ==
    ApiCall("analytics", client, connect, <<FALSE>>, TRUE, FALSE, <<"client">>,
            <<AnalyticsEmpty(minutes, <<"clickhouse_query_failed">>)>>)

\* The except branch of the queries: close, _ch = None, the empty payload.
AnalyticsQueryFailed(client, connect, minutes) ==
    ApiCall("analytics", client, connect, <<FALSE>>, TRUE, FALSE, <<>>,
            <<AnalyticsEmpty(minutes, <<"clickhouse_query_failed">>)>>)

\* analytics() from its first query on, with the client it has by then.
AnalyticsQueries(client, connect, query_ok, minutes) ==
    IF query_ok
    THEN ApiCall("analytics", client, connect, <<TRUE>>, FALSE, FALSE, <<"client">>,
                 <<AnalyticsData(minutes)>>)
    ELSE AnalyticsQueryFailed(client, connect, minutes)

\* analytics(minutes) with the client _ch.
AnalyticsHandler(client, connect_ok, query_ok, minutes) ==
    IF client = <<>>
    THEN IF connect_ok
         THEN AnalyticsQueries(client, <<TRUE>>, query_ok, minutes)
         ELSE ApiCall("analytics", client, <<FALSE>>, <<>>, FALSE, FALSE, <<>>,
                      <<AnalyticsEmpty(minutes, <<"clickhouse_unavailable">>)>>)
    ELSE AnalyticsQueries(client, <<>>, query_ok, minutes)

\* ready() after the Postgres probe: connects when _ch is None, then SELECT 1; an
\* exception of either leaves the handler, and _ch as it is by then.
ReadyHandler(client, connect_ok, query_ok) ==
    IF client = <<>> /\ ~connect_ok
    THEN ApiCall("ready", client, <<FALSE>>, <<>>, FALSE, TRUE, <<>>, <<>>)
    ELSE ApiCall("ready", client, IF client = <<>> THEN <<TRUE>> ELSE <<>>, <<query_ok>>,
                 FALSE, ~query_ok, <<"client">>,
                 IF query_ok THEN <<[status |-> "ready"]>> ELSE <<>>)

\* startup(): the pool is created, then _connect_clickhouse() under try/except.
StartupHandler(connect_ok) ==
    ApiCall("startup", <<>>, <<connect_ok>>, <<>>, FALSE, FALSE,
            IF connect_ok THEN <<"client">> ELSE <<>>, <<>>)

olapClientFrame ==
    <<validTopic, ledgerVars, rowsVars, validatorVars, validateVars, envVars, indexerVars,
      quoteVars, writers, refreshVars, builderVars>>

ApiStartup ==
    /\ ~started
    /\ \E connect_ok \in BOOLEAN :
         /\ ch' = StartupHandler(connect_ok).client_after
         /\ apiLog' = Append(apiLog, StartupHandler(connect_ok))
    /\ started' = TRUE
    /\ UNCHANGED olapClientFrame

ApiAnalytics ==
    /\ started
    /\ Len(apiLog) < MaxApiCalls
    /\ \E connect_ok \in BOOLEAN, query_ok \in BOOLEAN, minutes \in AnalyticsMinutes :
         /\ ch' = AnalyticsHandler(ch, connect_ok, query_ok, minutes).client_after
         /\ apiLog' = Append(apiLog, AnalyticsHandler(ch, connect_ok, query_ok, minutes))
    /\ UNCHANGED started
    /\ UNCHANGED olapClientFrame

ApiReady ==
    /\ started
    /\ Len(apiLog) < MaxApiCalls
    /\ \E connect_ok \in BOOLEAN, query_ok \in BOOLEAN :
         /\ ch' = ReadyHandler(ch, connect_ok, query_ok).client_after
         /\ apiLog' = Append(apiLog, ReadyHandler(ch, connect_ok, query_ok))
    /\ UNCHANGED started
    /\ UNCHANGED olapClientFrame

InitOlapClient ==
    /\ OlapClientIdle
    /\ WritersIdle
    /\ RefreshIdle
    /\ BuilderIdle
    /\ EnvIdle
    /\ IndexerIdle
    /\ QuoteIdle
    /\ ValidatorIdle
    /\ LedgerInit
    /\ RowsIdle
    /\ ValidateIdle

NextOlapClient ==
    \/ ApiStartup
    \/ ApiAnalytics
    \/ ApiReady

SpecOlapClient == InitOlapClient /\ [][NextOlapClient]_vars

\* The call is an /analytics call that had or got a client and whose queries all
\* returned.
AnalyticsSucceeded(c) ==
    /\ c.op = "analytics"
    /\ c.client_before # <<>> \/ c.connect = <<TRUE>>
    /\ c.query = <<TRUE>>

\* C38: a failed connect at start-up leaves _ch unset and startup() returns;
\* /analytics with _ch unset tries to connect and, when that fails, returns the
\* empty payload with warning 'clickhouse_unavailable' and _ch still unset; a failed
\* query closes the client, unsets _ch and returns the empty payload with a warning;
\* every /analytics call that has or gets a client and whose queries return, the
\* first after a failure included, returns the data without a warning and keeps the
\* client.  Each call starts with the client the call before it left.
C38_OlapClientCycle ==
    /\ ch = (IF apiLog = <<>> THEN <<>> ELSE apiLog[Len(apiLog)].client_after)
    /\ \A i \in 1..Len(apiLog) :
          /\ i > 1 => apiLog[i].client_before = apiLog[i - 1].client_after
          /\ (apiLog[i].op = "startup" /\ apiLog[i].connect = <<FALSE>>) =>
                ~apiLog[i].raised /\ apiLog[i].client_after = <<>>
          /\ (apiLog[i].op = "analytics" /\ apiLog[i].client_before = <<>>) =>
                /\ apiLog[i].connect # <<>>
                /\ apiLog[i].connect = <<FALSE>> =>
                      /\ apiLog[i].query = <<>>
                      /\ apiLog[i].client_after = <<>>
                      /\ apiLog[i].response[1].rows = "empty"
                      /\ apiLog[i].response[1].warning = <<"clickhouse_unavailable">>
          /\ (apiLog[i].op = "analytics" /\ apiLog[i].query = <<FALSE>>) =>
                /\ apiLog[i].closed
                /\ apiLog[i].client_after = <<>>
                /\ apiLog[i].response[1].rows = "empty"
                /\ apiLog[i].response[1].warning # <<>>
          /\ AnalyticsSucceeded(apiLog[i]) =>
                /\ apiLog[i].response[1].rows = "as_dicts"
                /\ apiLog[i].response[1].warning = <<>>
                /\ apiLog[i].client_after # <<>>
          /\ apiLog[i].op = "analytics" =>
                /\ ~apiLog[i].raised
                /\ apiLog[i].response[1].minutes \in AnalyticsMinutes

\* The whole cycle in one run: the connect fails at start-up, the first /analytics
\* call connects and its query fails, the next one connects again and returns data.
C38_Witness ==
    /\ Len(apiLog) >= 3
    /\ apiLog[1].op = "startup" /\ apiLog[1].connect = <<FALSE>>
    /\ apiLog[2].op = "analytics" /\ apiLog[2].connect = <<TRUE>>
    /\ apiLog[2].query = <<FALSE>>
    /\ apiLog[3].op = "analytics" /\ apiLog[3].connect = <<TRUE>>
    /\ AnalyticsSucceeded(apiLog[3])
    /\ apiLog[3].response[1].warning = <<>>

(***************************************************************************)
(* API: the snapshot the payloads answer from.                             *)
(***************************************************************************)
\* C40: the API process reads the snapshot file again only after the quote cache's
\* _refresh has cleared the loader's cache: a tokens_payload call (and
\* risk_assumptions_payload, which loads the same way) with a snapshot on disk or in
\* the loader's cache returns; the first call loads the file, and while the loader
\* holds a snapshot a call answers from that snapshot, whatever the file holds by
\* then, and leaves it in the cache; the loaded snapshot is dropped by cache_clear
\* only.
C40_PayloadsAnswerFromLoadedSnapshot ==
    [][/\ lastTokens' # lastTokens =>
             /\ (IsSnapshotFile(registryFile) \/ registryCache # <<>>) =>
                   ~lastTokens'[1].result.raised
             /\ (IsSnapshotFile(registryFile) /\ registryCache = <<>>) =>
                   /\ lastTokens'[1].result.value = <<TokensPayloadOf(registryFile)>>
                   /\ registryCache' = <<registryFile>>
             /\ registryCache # <<>> =>
                   /\ lastTokens'[1].result.value = <<TokensPayloadOf(registryCache[1])>>
                   /\ registryCache' = registryCache
       /\ (registryCache # <<>> /\ registryCache' # registryCache) => registryCache' = <<>>]_vars


(***************************************************************************)
(* The registry builder: scripts/generate_chain_registry.py.               *)
(*                                                                         *)
(* One chain of CHAIN_SPECS is modelled (every chain is built by the same  *)
(* loop body, from its own files and its own endpoint).  A pair carries    *)
(* its addresses, its reserves and checked_at; the token lists, which hold *)
(* no time, are left out.  Times are ticks of `clock`.                     *)
(***************************************************************************)
\* The builder runs of a behaviour.
MaxRuns == 2

BuilderPair(address, token0, token1, reserve0, reserve1, at) ==
    [pair_address |-> address, token0_address |-> token0, token1_address |-> token1,
     reserve0_decimal |-> reserve0, reserve1_decimal |-> reserve1, checked_at |-> at]

MusdAddress == "0xB6322eD8561604Ca2A1b9c17e4d02B957EB242fe"

\* str(pair.get('pair_address', '')).strip().lower(): the addresses of the model
\* are in one spelling.
PairKey(pair) == pair.pair_address

\* merged[pair_address] = pair: a key already in the dict keeps its place and takes
\* the new value.
PutPair(merged, pair) ==
    IF PairKey(pair) = "" THEN merged
    ELSE IF \E i \in 1..Len(merged) : PairKey(merged[i]) = PairKey(pair)
    THEN [i \in 1..Len(merged) |->
             IF PairKey(merged[i]) = PairKey(pair) THEN pair ELSE merged[i]]
    ELSE Append(merged, pair)

RECURSIVE PutPairs(_, _)
PutPairs(merged, pairs) ==
    IF pairs = <<>> THEN merged
    ELSE PutPairs(PutPair(merged, Head(pairs)), Tail(pairs))

\* _merge_pair_lists with the two lists in the other order.
MergePairListsPrimaryLast(primary_pairs, secondary_pairs) ==
    PutPairs(<<>>, secondary_pairs \o primary_pairs)

\* _merge_pair_lists
MergePairLists(primary_pairs, secondary_pairs) ==
    PutPairs(<<>>, primary_pairs \o secondary_pairs)

\* The test of _filter_evm_pairs and of _read_pair_seed on one pair.
HasEvmAddresses(pair) ==
    /\ IsEvmAddress(pair.pair_address)
    /\ IsEvmAddress(pair.token0_address)
    /\ IsEvmAddress(pair.token1_address)

\* _filter_evm_pairs
RECURSIVE FilterEvmPairs(_)
FilterEvmPairs(pairs) ==
    IF pairs = <<>> THEN <<>>
    ELSE (IF HasEvmAddresses(Head(pairs)) THEN <<Head(pairs)>> ELSE <<>>)
             \o FilterEvmPairs(Tail(pairs))

\* [str(pair.get('pair_address', '')).strip() for pair in pairs]
PairAddressesOf(pairs) == [i \in 1..Len(pairs) |-> pairs[i].pair_address]

\* _target_pairs_from_registry: deployed_entry is <<>> (no file for the network)
\* or <<[musd, targets]>>; a target names its pair and its token.
RECURSIVE TargetPairs(_, _, _, _)
TargetPairs(targets, musd, checked_at, seen) ==
    IF targets = <<>> THEN <<>>
    ELSE IF ~(IsEvmAddress(Head(targets).pair) /\ IsEvmAddress(Head(targets).token))
            \/ Head(targets).pair \in seen
    THEN TargetPairs(Tail(targets), musd, checked_at, seen)
    ELSE <<BuilderPair(Head(targets).pair, musd, Head(targets).token, "0", "0", checked_at)>>
             \o TargetPairs(Tail(targets), musd, checked_at, seen \cup {Head(targets).pair})

TargetPairsFromRegistry(deployed_entry, checked_at) ==
    IF deployed_entry = <<>> THEN <<>>
    ELSE IF ~IsEvmAddress(deployed_entry[1].musd) THEN <<>>
    ELSE TargetPairs(deployed_entry[1].targets, deployed_entry[1].musd, checked_at, {})

TrustEndpoints == <<"native-musd-policy", "wrapped-btc-evm", "wrapped-sol-evm">>

\* _trust_assumptions with last_attested_at taken from checked_at.
TrustAssumptionsAttestedNow(chain_key, checked_at) ==
    [i \in 1..Len(TrustEndpoints) |->
        [endpoint |-> TrustEndpoints[i], last_attested_at |-> <<checked_at>>,
         last_checked_at |-> checked_at]]

\* _trust_assumptions: no attestation time is set in the environment.
TrustAssumptions(chain_key, checked_at) ==
    [i \in 1..Len(TrustEndpoints) |->
        [endpoint |-> TrustEndpoints[i], last_attested_at |-> <<>>,
         last_checked_at |-> checked_at]]

\* _read_previous_generated_registry: the chain of the file under its chain_key,
\* <<>> when there is no file, no JSON in it, or no such chain.
ReadPreviousGeneratedRegistry(file, chain_key) ==
    IF IsSnapshotFile(file) THEN LoadChainFromRegistry(file, chain_key) ELSE <<>>

(***************************************************************************)
(* What the endpoint does to the calls of _discover_pairs.                 *)
(*   result       every call is answered; the factory lists `pairs`        *)
(*   unreachable  urlopen raises URLError and curl exits non-zero          *)
(*   timeout      the read of the response times out                       *)
(*   not-object   the body is JSON but not an object (a list, a string)    *)
(***************************************************************************)
\* _rpc_call: what the first call that does not return a result raises.
RpcCall(answer) ==
    CASE answer.kind = "result" -> CallReturned(answer.pairs)
      [] answer.kind = "unreachable" -> CallRaised("RuntimeError")
      [] answer.kind = "timeout" -> CallRaised("TimeoutError")
      [] OTHER -> CallRaised("AttributeError")

\* str(exc)
ExcText(answer) ==
    CASE answer.kind = "unreachable" -> "rpc call failed via urllib and curl"
      [] answer.kind = "timeout" -> "timed out"
      [] OTHER -> "'list' object has no attribute 'get'"

\* pairs.append({...}) for every pair the factory lists.
StampPairs(listed, checked_at) ==
    [i \in 1..Len(listed) |->
        BuilderPair(listed[i].pair_address, listed[i].token0_address,
                    listed[i].token1_address, listed[i].reserve0_decimal,
                    listed[i].reserve1_decimal, checked_at)]

DiscoveryStatus(kind, source, detail) == [kind |-> kind, source |-> source, detail |-> detail]

NetworkHealth(connected, latest_block, checked_at, status, fallback_pair_count) ==
    [rpc_connected |-> connected, latest_block |-> latest_block, checked_at |-> checked_at,
     discovery_status |-> status, fallback_pair_count |-> fallback_pair_count]

\* The block eth_blockNumber reports.
LatestBlock == 7

\* _discover_pairs
DiscoverPairs(answer, checked_at) ==
    IF RpcCall(answer).raised THEN CallRaised(RpcCall(answer).error)
    ELSE CallReturned([pairs |-> StampPairs(RpcCall(answer).value[1], checked_at),
                       health |-> NetworkHealth(TRUE, <<LatestBlock>>, checked_at,
                                                DiscoveryStatus("ok", <<>>, ""), <<>>)])

\* except (urllib.error.URLError, TimeoutError, RuntimeError, ValueError)
CaughtByBuild(error) == error \in {"URLError", "TimeoutError", "RuntimeError", "ValueError"}

\* previous_chain.get('pairs') if it is a list, else []
PreviousPairs(previous_chain) == IF previous_chain = <<>> THEN <<>> ELSE previous_chain[1].pairs

\* fallback_pairs of the except branch.
FallbackPairs(previous_pairs, seed_pairs, target_pairs) ==
    MergePairLists(target_pairs, MergePairLists(previous_pairs, seed_pairs))

\* source_parts
SourceParts(previous_pairs, seed_pairs, target_pairs) ==
    (IF previous_pairs # <<>> THEN <<"previous">> ELSE <<>>)
        \o (IF seed_pairs # <<>> THEN <<"seed">> ELSE <<>>)
        \o (IF target_pairs # <<>> THEN <<"targets">> ELSE <<>>)

BuilderChain(pairs, health, checked_at) ==
    [chain_key |-> "hardhat-local", chain_id |-> 31337,
     pair_addresses |-> PairAddressesOf(pairs), stabilizer_addresses |-> <<>>,
     pairs |-> pairs, network_health |-> health,
     trust_assumptions |-> TrustAssumptions("hardhat-local", checked_at)]

\* The except branch of build_registry for one chain.
FallbackChain(previous_pairs, seed_pairs, target_pairs, answer, generated_at) ==
    IF FallbackPairs(previous_pairs, seed_pairs, target_pairs) # <<>>
    THEN BuilderChain(FilterEvmPairs(FallbackPairs(previous_pairs, seed_pairs, target_pairs)),
                      NetworkHealth(FALSE, <<>>, generated_at,
                                    DiscoveryStatus("fallback",
                                                    SourceParts(previous_pairs, seed_pairs,
                                                                target_pairs),
                                                    ExcText(answer)),
                                    <<Len(FilterEvmPairs(FallbackPairs(previous_pairs,
                                                                       seed_pairs,
                                                                       target_pairs)))>>),
                      generated_at)
    ELSE BuilderChain(<<>>,
                      NetworkHealth(FALSE, <<>>, generated_at,
                                    DiscoveryStatus("error", <<>>, ExcText(answer)), <<>>),
                      generated_at)

\* The body of the loop of build_registry for one chain: the chain entry, or the
\* error that leaves build_registry.
BuildChain(previous_chain, seed_pairs, deployed_entry, answer, generated_at) ==
    IF ~DiscoverPairs(answer, generated_at).raised
    THEN CallReturned(BuilderChain(
             FilterEvmPairs(DiscoverPairs(answer, generated_at).value[1].pairs),
             DiscoverPairs(answer, generated_at).value[1].health, generated_at))
    ELSE IF CaughtByBuild(DiscoverPairs(answer, generated_at).error)
    THEN CallReturned(FallbackChain(PreviousPairs(previous_chain), seed_pairs,
                                    TargetPairsFromRegistry(deployed_entry, generated_at),
                                    answer, generated_at))
    ELSE CallRaised(DiscoverPairs(answer, generated_at).error)

\* build_registry
BuildRegistry(file, seed_pairs, deployed_entry, answer, generated_at) ==
    IF BuildChain(ReadPreviousGeneratedRegistry(file, "hardhat-local"), seed_pairs,
                  deployed_entry, answer, generated_at).raised
    THEN CallRaised(BuildChain(ReadPreviousGeneratedRegistry(file, "hardhat-local"),
                               seed_pairs, deployed_entry, answer, generated_at).error)
    ELSE CallReturned(
             [version |-> 3, generated_at |-> generated_at,
              chains |-> <<BuildChain(ReadPreviousGeneratedRegistry(file, "hardhat-local"),
                                      seed_pairs, deployed_entry, answer,
                                      generated_at).value[1]>>])


(***************************************************************************)
(* The builder's runs and the readers of its file.                         *)
(***************************************************************************)
\* A snapshot a discovery that succeeded at tick 0 has left on disk.
SnapshotOf(pairs) ==
    [version |-> 3, generated_at |-> 0,
     chains |-> <<BuilderChain(pairs,
                               NetworkHealth(TRUE, <<LatestBlock>>, 0,
                                             DiscoveryStatus("ok", <<>>, ""), <<>>),
                               0)>>]

\* The pairs of the snapshots found on disk: two pools, and an entry whose token
\* address is no address.
PairOne == BuilderPair("0xE1", MusdAddress, "0xE2", "5", "50", 0)

PairTwo == BuilderPair("0xE2", MusdAddress, "0xE1", "6", "60", 0)

PairNoToken == BuilderPair("0xE2", "0xHASH", "0xE1", "6", "60", 0)

PreviousFiles ==
    {UnreadableFile("missing"), SnapshotOf(<<PairOne>>), SnapshotOf(<<PairOne, PairTwo>>),
     SnapshotOf(<<PairOne, PairNoToken>>)}

\* pair-seeds.<network>.json: absent, or listing the first pool with its own reserves.
SeedPairLists == {<<>>, <<BuilderPair("0xE1", MusdAddress, "0xE2", "7", "70", 0)>>}

\* address-registry.<network>.json: absent, or with a target for each pool.
DeployedEntries ==
    {<<>>,
     <<[musd |-> MusdAddress,
        targets |-> <<[pair |-> "0xE1", token |-> "0xE2"],
                      [pair |-> "0xE2", token |-> "0xE1"]>>]>>}

\* What the factory lists when discovery succeeds.
ListedPairs ==
    {<<>>,
     <<[pair_address |-> "0xE1", token0_address |-> MusdAddress, token1_address |-> "0xE2",
        reserve0_decimal |-> "9", reserve1_decimal |-> "90"]>>}

DiscoveryAnswers ==
    {[kind |-> "result", pairs |-> listed] : listed \in ListedPairs}
        \cup {[kind |-> k, pairs |-> <<>>] :
                 k \in {"unreachable", "timeout", "not-object"}}

BuilderRun(file, seed_pairs, deployed_entry, answer, generated_at) ==
    [file |-> file, seed_pairs |-> seed_pairs, deployed_entry |-> deployed_entry,
     answer |-> answer, generated_at |-> generated_at,
     result |-> BuildRegistry(file, seed_pairs, deployed_entry, answer, generated_at)]

\* The runs since discovery last succeeded: the pairs of the chain on disk before
\* the first of them, the pair addresses the seed files of these runs listed, and
\* how many runs there were.
StreakAfter(old, file, seed_pairs, answer) ==
    IF answer.kind = "result" THEN <<>>
    ELSE IF old = <<>>
    THEN <<[before |-> PreviousPairs(ReadPreviousGeneratedRegistry(file, "hardhat-local")),
            seeded |-> {seed_pairs[i].pair_address : i \in 1..Len(seed_pairs)},
            runs |-> 1]>>
    ELSE <<[before |-> old[1].before,
            seeded |-> old[1].seeded
                           \cup {seed_pairs[i].pair_address : i \in 1..Len(seed_pairs)},
            runs |-> old[1].runs + 1]>>

builderFrame ==
    <<validTopic, ledgerVars, rowsVars, validatorVars, validateVars, envVars, indexerVars,
      quoteVars, writers, refreshVars, olapClientVars>>

\* _load_chain_from_registry on the file as it is on disk: {} when the text is
\* not JSON.
LoadChainFromFile(file, chain_key) ==
    IF IsSnapshotFile(file) THEN LoadChainFromRegistry(file, chain_key) ELSE <<>>

\* main() up to the return of build_registry(): an error that leaves it ends the
\* process before anything is written.  What readers saw before is forgotten.
BuilderBuild ==
    /\ bpc = "build"
    /\ clock <= MaxRuns
    /\ \E seed_pairs \in SeedPairLists, deployed_entry \in DeployedEntries,
          answer \in DiscoveryAnswers :
         /\ lastRun' = <<BuilderRun(outPath, seed_pairs, deployed_entry, answer, clock)>>
         /\ registry' =
               BuildRegistry(outPath, seed_pairs, deployed_entry, answer, clock).value
         /\ bpc' = IF BuildRegistry(outPath, seed_pairs, deployed_entry, answer,
                                    clock).raised
                   THEN "build" ELSE "open"
         /\ streak' = StreakAfter(streak, outPath, seed_pairs, answer)
    /\ clock' = clock + 1
    /\ lastRead' = <<>>
    /\ UNCHANGED outPath
    /\ UNCHANGED builderFrame

\* OUT_PATH.write_text(...): the file is opened for writing, which empties it.
BuilderOpen ==
    /\ bpc = "open"
    /\ outPath' = UnreadableFile("not-json")
    /\ bpc' = "write"
    /\ UNCHANGED <<registry, clock, lastRun, streak, lastRead>>
    /\ UNCHANGED builderFrame

\* OUT_PATH.write_text(...): the text is written and the file is closed.
BuilderWrite ==
    /\ bpc = "write"
    /\ outPath' = registry[1]
    /\ bpc' = "build"
    /\ registry' = <<>>
    /\ UNCHANGED <<clock, lastRun, streak, lastRead>>
    /\ UNCHANGED builderFrame

ReaderSaw(reader, file, writing, result) ==
    [reader |-> reader, file |-> file, writing |-> writing, result |-> result]

\* The indexer's refresh reads the file: _load_chain_from_registry(chain_key).
IndexerRead ==
    /\ lastRead' = <<ReaderSaw("indexer", outPath, bpc = "write",
                               CallReturned(LoadChainFromFile(outPath, "hardhat-local")))>>
    /\ UNCHANGED <<outPath, bpc, registry, clock, lastRun, streak>>
    /\ UNCHANGED builderFrame

\* The API loads the registry with nothing cached: _load_chain_registry_cached().
ApiRead ==
    /\ lastRead' = <<ReaderSaw("api", outPath, bpc = "write",
                               LoadChainRegistryUncached(outPath))>>
    /\ UNCHANGED <<outPath, bpc, registry, clock, lastRun, streak>>
    /\ UNCHANGED builderFrame

InitBuilder ==
    /\ outPath \in PreviousFiles
    /\ bpc = "build"
    /\ registry = <<>>
    /\ clock = 1
    /\ lastRun = <<>>
    /\ streak = <<>>
    /\ lastRead = <<>>
    /\ WritersIdle
    /\ RefreshIdle
    /\ OlapClientIdle
    /\ EnvIdle
    /\ IndexerIdle
    /\ QuoteIdle
    /\ ValidatorIdle
    /\ LedgerInit
    /\ RowsIdle
    /\ ValidateIdle

NextBuilder ==
    \/ BuilderBuild
    \/ BuilderOpen
    \/ BuilderWrite
    \/ IndexerRead
    \/ ApiRead

SpecBuilder == InitBuilder /\ [][NextBuilder]_vars


(***************************************************************************)
(* The builder's file as its readers find it.                              *)
(***************************************************************************)
\* C33: the snapshot file is replaced atomically: a reader (the API loader or the
\* indexer) that reads the file while the builder is writing it finds either the
\* complete old snapshot or the complete new one, never a partial file that it
\* takes for an empty registry.
C33_ReaderSeesOldOrNewSnapshot ==
    (lastRead # <<>> /\ lastRead[1].writing) =>
        lastRead[1].file \in {lastRun[1].file, registry[1]}


(***************************************************************************)
(* The builder when discovery fails.                                       *)
(***************************************************************************)
\* The pairs the chain had in the file a run started from.
RunPreviousPairs(run) ==
    PreviousPairs(ReadPreviousGeneratedRegistry(run.file, "hardhat-local"))

DiscoveryFailed(run) == run.answer.kind # "result"

\* The chain entry a run built.
RunChain(run) == run.result.value[1].chains[1]

\* The pair addresses the chain entry lists.
ListedAddresses(chain) == {chain.pairs[i].pair_address : i \in 1..Len(chain.pairs)}

\* The run fell back to the previous snapshot's pairs: every pair of it that has
\* valid addresses is listed, the status says 'fallback-previous...' with the text
\* of the failure, and rpc_connected is false.
FellBackToPrevious(run) ==
    /\ \A i \in 1..Len(RunPreviousPairs(run)) :
          HasEvmAddresses(RunPreviousPairs(run)[i]) =>
              RunPreviousPairs(run)[i].pair_address \in ListedAddresses(RunChain(run))
    /\ RunChain(run).network_health.discovery_status.kind = "fallback"
    /\ Head(RunChain(run).network_health.discovery_status.source) = "previous"
    /\ RunChain(run).network_health.discovery_status.detail = ExcText(run.answer)
    /\ RunChain(run).network_health.rpc_connected = FALSE

\* C31: when pair discovery for a chain fails with an RPC error and the previous
\* snapshot holds pairs for that chain, the run still writes a snapshot, the new
\* snapshot contains those previous pairs, network_health.discovery_status starts
\* with 'fallback-previous' and names the failure, and rpc_connected is false.
C31_FailedDiscoveryFallsBackToPrevious ==
    (lastRun # <<>> /\ DiscoveryFailed(lastRun[1]) /\ RunPreviousPairs(lastRun[1]) # <<>>) =>
        /\ ~lastRun[1].result.raised
        /\ bpc \in {"open", "write"} \/ outPath = lastRun[1].result.value[1]
        /\ FellBackToPrevious(lastRun[1])

\* The same for the failures the except clause of build_registry names.
C31_CaughtFailureFallsBackToPrevious ==
    (/\ lastRun # <<>>
     /\ DiscoveryFailed(lastRun[1])
     /\ CaughtByBuild(RpcCall(lastRun[1].answer).error)
     /\ RunPreviousPairs(lastRun[1]) # <<>>) =>
        /\ ~lastRun[1].result.raised
        /\ bpc \in {"open", "write"} \/ outPath = lastRun[1].result.value[1]
        /\ FellBackToPrevious(lastRun[1])


\* The pairs of the chain in the file on disk.
PairsOnDisk == PreviousPairs(ReadPreviousGeneratedRegistry(outPath, "hardhat-local"))

\* C39: over any number of consecutive builder runs in which discovery fails for a
\* chain, every pair with valid pair and token addresses that was in the chain's
\* snapshot before the first failed run, and that no pair-seed file lists, is still
\* in the snapshot after the last run with its recorded reserves unchanged; a
\* deployed-target entry with zero reserves for the same pair address does not
\* replace it.
C39_PairsSurviveFailedRuns ==
    (streak # <<>> /\ IsSnapshotFile(outPath)) =>
        \A i \in 1..Len(streak[1].before) :
            (/\ HasEvmAddresses(streak[1].before[i])
             /\ streak[1].before[i].pair_address \notin streak[1].seeded) =>
                \E j \in 1..Len(PairsOnDisk) : PairsOnDisk[j] = streak[1].before[i]

\* Two runs in a row failed and wrote; the deployed targets of the last one named
\* the address of a pool the snapshot had before, and the pool is still listed
\* with its reserves.
C39_Witness ==
    /\ streak # <<>>
    /\ streak[1].runs >= 2
    /\ bpc = "build"
    /\ ~lastRun[1].result.raised
    /\ outPath = lastRun[1].result.value[1]
    /\ lastRun[1].deployed_entry # <<>>
    /\ \E i \in 1..Len(streak[1].before) : streak[1].before[i] = PairTwo
    /\ \E j \in 1..Len(PairsOnDisk) : PairsOnDisk[j] = PairTwo


(***************************************************************************)
(* The builder run again on the same inputs at another time.               *)
(***************************************************************************)
\* The times at which the other run can take place: after the file it starts from
\* was written.
RunTimes(run) ==
    {t \in 1..(MaxRuns + 1) : IsSnapshotFile(run.file) => t > run.file.generated_at}

\* build_registry() on the inputs of `run` when the clock reads t.
SameInputsAt(run, t) ==
    BuildRegistry(run.file, run.seed_pairs, run.deployed_entry, run.answer, t)

\* A snapshot without its top-level generated_at.
WithoutGeneratedAt(snapshot) == [snapshot EXCEPT !.generated_at = 0]

\* A chain entry without the fields that repeat the run's generated_at `t`.
WithoutRunTime(chain, t) ==
    [chain EXCEPT
        !.network_health.checked_at = 0,
        !.trust_assumptions =
            [i \in 1..Len(chain.trust_assumptions) |->
                [chain.trust_assumptions[i] EXCEPT !.last_checked_at = 0]],
        !.pairs =
            [i \in 1..Len(chain.pairs) |->
                IF chain.pairs[i].checked_at = t
                THEN [chain.pairs[i] EXCEPT !.checked_at = 0]
                ELSE chain.pairs[i]]]

\* A snapshot without generated_at and without the fields that repeat it.
WithoutRunTimes(snapshot) ==
    [snapshot EXCEPT
        !.generated_at = 0,
        !.chains = [i \in 1..Len(snapshot.chains) |->
                       WithoutRunTime(snapshot.chains[i], snapshot.generated_at)]]

\* C32 as stated: two runs of the builder on identical inputs produce snapshots
\* that are equal in every field except the top-level generated_at.
C32_EqualExceptGeneratedAt ==
    (lastRun # <<>> /\ ~lastRun[1].result.raised) =>
        \A t \in RunTimes(lastRun[1]) :
            /\ ~SameInputsAt(lastRun[1], t).raised
            /\ WithoutGeneratedAt(SameInputsAt(lastRun[1], t).value[1])
                   = WithoutGeneratedAt(lastRun[1].result.value[1])

\* C32, amended: two runs of the builder on identical inputs end the same way, and
\* the snapshots they produce are equal in every field except the top-level
\* generated_at and the fields that repeat it: network_health.checked_at, the
\* last_checked_at of every trust assumption, and the checked_at of every pair the
\* run discovered or took from the deployed targets.
C32_EqualExceptRunTimes ==
    lastRun # <<>> =>
        \A t \in RunTimes(lastRun[1]) :
            /\ SameInputsAt(lastRun[1], t).raised = lastRun[1].result.raised
            /\ SameInputsAt(lastRun[1], t).error = lastRun[1].result.error
            /\ ~lastRun[1].result.raised =>
                  WithoutRunTimes(SameInputsAt(lastRun[1], t).value[1])
                      = WithoutRunTimes(lastRun[1].result.value[1])

\* A run fell back to a pool of the previous snapshot, which keeps its checked_at,
\* and to a deployed target, which carries the run's; at another time the same
\* inputs give another snapshot.
C32_Witness ==
    /\ lastRun # <<>>
    /\ ~lastRun[1].result.raised
    /\ DiscoveryFailed(lastRun[1])
    /\ \E i \in 1..Len(RunChain(lastRun[1]).pairs) :
          RunChain(lastRun[1]).pairs[i].checked_at = lastRun[1].generated_at
    /\ \E i \in 1..Len(RunChain(lastRun[1]).pairs) : RunChain(lastRun[1]).pairs[i] = PairOne
    /\ \E t \in RunTimes(lastRun[1]) :
          SameInputsAt(lastRun[1], t).value[1] # lastRun[1].result.value[1]

====
